---- MODULE Spec2Model ----
(***************************************************************************)
(* The course-builder wizard of xkid/TTT: the App component's state        *)
(* (src/App.tsx), the generation service (src/unnamed/part_003, and its     *)
(* earlier copy src/unnamed/part_002), and the plan table's edit and        *)
(* refine callbacks (src/unnamed/part_000).                                 *)
(*                                                                         *)
(* JavaScript runs one handler at a time: an action of this module is one   *)
(* handler, or the part of an async function between two awaits.  An async  *)
(* function started by a click is a record in `tasks`; it keeps the values  *)
(* its closure captured when the click happened.                            *)
(*                                                                         *)
(* A JavaScript object is a function from its field names to their values;  *)
(* a field whose value is undefined is left out of the domain.              *)
(***************************************************************************)
EXTENDS Integers, Sequences, FiniteSets, TLC

VARIABLES
    step,               \* App.tsx:22
    maxStepReached,     \* App.tsx:23
    status,             \* App.tsx:24
    loadingMsg,         \* App.tsx:25
    isRefining,         \* App.tsx:26
    error,              \* App.tsx:27
    basics,             \* App.tsx:32
    outcomes,           \* App.tsx:35
    structure,          \* App.tsx:38
    iceBreakerOptions,  \* App.tsx:41
    coursePlan,         \* App.tsx:44, <<>> for null and <<plan>> otherwise
    tasks,              \* the async functions started so far, finished ones kept
    quota,              \* how many more edits and async functions the user will start
    now,                \* Date.now()
    apiKey,             \* whether getApiKey() finds a key
    service,            \* which copy of the generation service the build links,
                        \* settled when generateFinalPlanContent is first called
    db,                 \* the object store "courses": its records by key path id
    savedCourses,       \* the list the Saved Courses drawer renders
    saves               \* the saveCourseToDB calls so far, as they settled

vars == <<step, maxStepReached, status, loadingMsg, isRefining, error, basics,
          outcomes, structure, iceBreakerOptions, coursePlan, tasks, quota,
          now, apiKey, service, db, savedCourses, saves>>

(***************************************************************************)
(* Bounds of the model.                                                    *)
(***************************************************************************)
MaxOps == 2
MaxDays == 2
MaxMods == 2
MaxClock == 1
MaxStageOps == 3
MaxLiveOps == 2
MaxStoreOps == 3

Null == "<null>"

Services == {"part_002", "part_003"}
Unlinked == "unlinked"

\* GenerationStatus
IDLE == "IDLE"
GENERATING_OUTCOMES == "GENERATING_OUTCOMES"
GENERATING_STRUCTURE == "GENERATING_STRUCTURE"
GENERATING_ICEBREAKERS == "GENERATING_ICEBREAKERS"
GENERATING_PLAN == "GENERATING_PLAN"

ErrorSentinel == "Error generating content."

(***************************************************************************)
(* Objects.                                                                *)
(***************************************************************************)
Has(o, f) == f \in DOMAIN o

\* { ...a, ...b }
Spread(a, b) ==
    [f \in (DOMAIN a) \cup (DOMAIN b) |-> IF f \in DOMAIN b THEN b[f] ELSE a[f]]

\* o without the fields of fs: a field assigned undefined
Without(o, fs) == [f \in (DOMAIN o) \ fs |-> o[f]]

\* JavaScript's truthiness of a string-valued field that may be undefined
Truthy(o, f) == Has(o, f) /\ o[f] # ""

SeqMap(Op(_, _), s) == [i \in 1..Len(s) |-> Op(s[i], i)]

RemoveAt(s, i) == [j \in 1..(Len(s) - 1) |-> IF j < i THEN s[j] ELSE s[j + 1]]

EmptyIceBreaker == [title |-> "", description |-> "", duration |-> ""]

(***************************************************************************)
(* The remote capability's answers, as far as the code tells them apart.   *)
(***************************************************************************)
Failure == [ok |-> FALSE, body |-> <<>>]
Success(b) == [ok |-> TRUE, body |-> b]

\* generateModuleDetail: a rejected call or an unparsable body throws; a
\* body is whatever object JSON.parse returns.
DetailBodies ==
    { [title |-> "AI title", id |-> <<"ai">>, subModules |-> <<"point">>,
       methodology |-> "Lecture", resources |-> "Slides", duration |-> "2 hours",
       slideNumbers |-> "6-9"],
      <<>> }
DetailResponses == {Failure} \cup {Success(b) : b \in DetailBodies}

\* the end-of-day call
FinalBodies ==
    { [summary |-> "Day summary", reviewQuestions |-> <<"Q1", "Q2">>],
      [summary |-> "Day summary"],
      [reviewQuestions |-> <<"Q1", "Q2">>],
      <<>> }
FinalResponses == {Failure} \cup {Success(b) : b \in FinalBodies}

(***************************************************************************)
(* generateCourseStructure's hydration of the parsed response.             *)
(***************************************************************************)
ModTitle(m) == IF m = 1 THEN "Intro" ELSE IF m = 2 THEN "Practice" ELSE "Wrap-up"

RawModule(m) == [title |-> ModTitle(m), duration |-> "1 hour"]

RawDay(n, k) == [dayNumber |-> n, modules |-> [m \in 1..k |-> RawModule(m)]]

RECURSIVE SumTo(_, _)
SumTo(f, n) == IF n = 0 THEN 0 ELSE f[n] + SumTo(f, n - 1)

\* the parsed responses with at most maxDays days and at most maxMods modules
RawStructures(maxDays, maxMods) ==
    UNION { { [d \in 1..n |-> RawDay(d, ks[d])] :
                ks \in {f \in [1..n -> 0..maxMods] : SumTo(f, n) <= maxMods} } :
            n \in 0..maxDays }

HydrateModule(m, dIdx, mIdx, t) ==
    [id |-> IF Truthy(m, "id") THEN m.id ELSE <<"d", dIdx, "m", mIdx, t>>,
     title |-> m.title,
     duration |-> m.duration,
     subModules |-> <<>>,
     methodology |-> "",
     resources |-> ""]

\* HydrateDay writing the recap placeholder into every day
HydrateDayAlwaysRecap(d, dIdx, t) ==
    [dayNumber |-> d.dayNumber,
     iceBreaker |-> EmptyIceBreaker,
     recap |-> "Recap of previous day",
     summary |-> "Key takeaways and Q&A",
     reviewQuestions |-> <<>>,
     modules |-> [m \in 1..Len(d.modules) |-> HydrateModule(d.modules[m], dIdx, m - 1, t)]]

HydrateDay(d, dIdx, t) ==
    LET day == [dayNumber |-> d.dayNumber,
                iceBreaker |-> EmptyIceBreaker,
                summary |-> "Key takeaways and Q&A",
                reviewQuestions |-> <<>>,
                modules |-> [m \in 1..Len(d.modules) |->
                                HydrateModule(d.modules[m], dIdx, m - 1, t)]]
    IN  IF d.dayNumber > 1
        THEN Spread(day, [recap |-> "Recap of previous day"])
        ELSE day

Hydrate(rawDays, t) == [d \in 1..Len(rawDays) |-> HydrateDay(rawDays[d], d - 1, t)]

(***************************************************************************)
(* generateFinalPlanContent, between two awaits.  A task of kind "plan":   *)
(*   skel      the skeleton argument; while `aliased`, its day and module  *)
(*             objects are the ones App's `structure` holds                *)
(*   skel0     the skeleton as it was when the function was called         *)
(*   d, m      the loop variables, 1-based                                 *)
(*   pm, pmIdx partialMod, and where that object now sits in its day's     *)
(*             modules array (0 once it was spliced out)                   *)
(*   sumData   summaryData as initialised before the end-of-day call       *)
(*   call      the remote call awaited: "detail", "final" or "none"        *)
(*   trace     the progress messages, remote calls and their returns       *)
(***************************************************************************)
Event(ev, kind, t, title, resp) ==
    [ev |-> ev, kind |-> kind, d |-> t.d, m |-> IF kind = "detail" THEN t.m ELSE 0,
     day |-> t.skel[t.d].dayNumber, title |-> title, resp |-> resp]

\* ProgressEvents reporting the module detail calls only
ProgressEventsDetailOnly(kind, t, title) ==
    IF t.sink /\ kind = "detail"
    THEN <<Event("progress", kind, t, title, Failure)>> ELSE <<>>

ProgressEvents(kind, t, title) ==
    IF t.sink THEN <<Event("progress", kind, t, title, Failure)>> ELSE <<>>

\* the loop test of line 268 and what follows it up to the next await
IssueNext(t) ==
    LET day == t.skel[t.d]
    IN  IF t.m <= Len(day.modules)
        THEN [t EXCEPT !.pm = day.modules[t.m],
                       !.pmIdx = t.m,
                       !.call = "detail",
                       !.trace = @ \o ProgressEvents("detail", t, day.modules[t.m].title)
                                   \o <<Event("call", "detail", t,
                                               day.modules[t.m].title, Failure)>>]
        ELSE [t EXCEPT !.sumData = [f \in {"summary", "reviewQuestions"} \cap DOMAIN day
                                        |-> day[f]],
                       !.call = "final",
                       !.trace = @ \o ProgressEvents("final", t, "")
                                   \o <<Event("call", "final", t, "", Failure)>>]

\* NextDay returning at once when no sink was supplied
NextDayNeedsSink(t) ==
    IF t.d <= Len(t.skel) /\ t.sink
    THEN IssueNext(t)
    ELSE [t EXCEPT !.phase = "resolved", !.call = "none"]

\* the loop test of line 263
NextDay(t) ==
    IF t.d <= Len(t.skel)
    THEN IssueNext(t)
    ELSE [t EXCEPT !.phase = "resolved", !.call = "none"]

NewPlanTask(cMax, b, o, skeleton, sink) ==
    [kind |-> "plan", phase |-> "pending", cMax |-> cMax, cBasics |-> b,
     cOutcomes |-> o, aliased |-> TRUE, skel |-> skeleton, skel0 |-> skeleton,
     sink |-> sink, d |-> 1, m |-> 1, pm |-> <<>>, pmIdx |-> 0, sumData |-> <<>>,
     call |-> "none", refinedModules |-> <<>>, refinedDays |-> <<>>,
     trace |-> <<>>]

\* lines 258-263: getClient() throws without a key
StartPlan(t) ==
    IF ~apiKey THEN [t EXCEPT !.phase = "rejected"] ELSE NextDay(t)

\* RefinedModule without the catch block's sentinel
RefinedModuleNoSentinel(pm, resp) ==
    IF resp.ok
    THEN Spread(resp.body, [id |-> pm.id, title |-> pm.title])
    ELSE pm

\* RefinedModule with the spread written after id and title
RefinedModuleTrustsResponse(pm, resp) ==
    IF resp.ok
    THEN Spread([id |-> pm.id, title |-> pm.title], resp.body)
    ELSE Spread(pm, [methodology |-> ErrorSentinel])

\* lines 272-283
RefinedModule(pm, resp) ==
    IF resp.ok
    THEN Spread(resp.body, [id |-> pm.id, title |-> pm.title])
    ELSE Spread(pm, [methodology |-> ErrorSentinel])

\* AfterDetail calling again for a module whose call failed
AfterDetailRetries(t, resp) ==
    IssueNext([t EXCEPT !.refinedModules = IF resp.ok
                                           THEN Append(@, RefinedModule(t.pm, resp))
                                           ELSE @,
                        !.m = IF resp.ok THEN @ + 1 ELSE @,
                        !.call = "none",
                        !.trace = Append(@, Event("ret", "detail", t, t.pm.title, resp))])

AfterDetail(t, resp) ==
    IssueNext([t EXCEPT !.refinedModules = Append(@, RefinedModule(t.pm, resp)),
                        !.m = @ + 1,
                        !.call = "none",
                        !.trace = Append(@, Event("ret", "detail", t, t.pm.title, resp))])

\* part_003 lines 309-313
SummaryData003(day, parsed) ==
    [f \in {g \in {"summary", "reviewQuestions"} : Has(parsed, g) \/ Has(day, g)} |->
        IF f = "summary"
        THEN IF Truthy(parsed, "summary") THEN parsed.summary ELSE day.summary
        ELSE IF Has(parsed, "reviewQuestions") THEN parsed.reviewQuestions
             ELSE day.reviewQuestions]

\* part_002 lines 265-266
SummaryData002(initial, parsed) ==
    IF Truthy(parsed, "summary") THEN parsed ELSE initial

SummaryData(t, resp) ==
    IF ~resp.ok THEN t.sumData
    ELSE IF service = "part_003" THEN SummaryData003(t.skel[t.d], resp.body)
    ELSE SummaryData002(t.sumData, resp.body)

\* lines 318-323
RefinedDay(day, mods, sd) ==
    Spread(Without(day, {"summary", "reviewQuestions"}),
           Spread([modules |-> mods],
                  [f \in {"summary", "reviewQuestions"} \cap DOMAIN sd |-> sd[f]]))

AfterFinal(t, resp) ==
    NextDay([t EXCEPT !.refinedDays =
                          Append(@, RefinedDay(t.skel[t.d], t.refinedModules,
                                               SummaryData(t, resp))),
                      !.refinedModules = <<>>,
                      !.d = @ + 1,
                      !.m = 1,
                      !.call = "none",
                      !.trace = Append(@, Event("ret", "final", t, "", resp))])

(***************************************************************************)
(* App.                                                                    *)
(***************************************************************************)
Pending(i) == tasks[i].phase = "pending"

InFlight(kind) == {i \in 1..Len(tasks) : tasks[i].kind = kind /\ Pending(i)}

\* advanceStep unlocking every stage at once
AdvanceStepUnlocksAll(nextStep, cMax) ==
    /\ step' = nextStep
    /\ maxStepReached' = IF nextStep > cMax THEN 5 ELSE maxStepReached

\* advanceStep, with the maxStepReached its closure captured
AdvanceStep(nextStep, cMax) ==
    /\ step' = nextStep
    /\ maxStepReached' = IF nextStep > cMax THEN nextStep ELSE maxStepReached

ProgressMsg(e) ==
    IF e.kind = "detail" THEN <<"Writing content for Day", e.day, e.title>>
    ELSE <<"Finalizing Day summary", e.day>>

LastProgress(t, other) ==
    LET ps == SelectSeq(t.trace, LAMBDA e : e.ev = "progress")
    IN  IF ps = <<>> THEN other ELSE ProgressMsg(ps[Len(ps)])

\* SettlePlan keeping the modules of the days the previous plan already had
SettlePlanMerges(t, msg) ==
    /\ loadingMsg' = LastProgress(t, msg)
    /\ CASE t.phase = "pending" ->
              UNCHANGED <<step, maxStepReached, coursePlan>>
         [] t.phase = "resolved" ->
              /\ coursePlan' =
                    <<[basics |-> t.cBasics, outcomes |-> t.cOutcomes,
                       schedule |->
                           [d \in 1..Len(t.refinedDays) |->
                               IF coursePlan # <<>> /\ d <= Len(coursePlan[1].schedule)
                               THEN Spread(t.refinedDays[d],
                                           [modules |-> coursePlan[1].schedule[d].modules])
                               ELSE t.refinedDays[d]]]>>
              /\ AdvanceStep(5, t.cMax)
         [] t.phase = "rejected" ->
              UNCHANGED <<step, maxStepReached, coursePlan>>

\* SettlePlan reading basics and outcomes when the run ends
SettlePlanReadsCurrent(t, msg) ==
    /\ loadingMsg' = LastProgress(t, msg)
    /\ CASE t.phase = "pending" ->
              UNCHANGED <<step, maxStepReached, coursePlan>>
         [] t.phase = "resolved" ->
              /\ coursePlan' = <<[basics |-> basics, outcomes |-> outcomes,
                                  schedule |-> t.refinedDays]>>
              /\ AdvanceStep(5, t.cMax)
         [] t.phase = "rejected" ->
              UNCHANGED <<step, maxStepReached, coursePlan>>

\* generateFinal after generateFinalPlanContent ran to its next await or end
SettlePlan(t, msg) ==
    /\ loadingMsg' = LastProgress(t, msg)
    /\ CASE t.phase = "pending" ->
              UNCHANGED <<step, maxStepReached, coursePlan>>
         [] t.phase = "resolved" ->
              /\ coursePlan' = <<[basics |-> t.cBasics, outcomes |-> t.cOutcomes,
                                  schedule |-> t.refinedDays]>>
              /\ AdvanceStep(5, t.cMax)
         [] t.phase = "rejected" ->
              UNCHANGED <<step, maxStepReached, coursePlan>>

\* generateFinal, up to its await
GenerateFinal ==
    /\ step = 4
    /\ status = IDLE
    /\ quota > 0
    /\ quota' = quota - 1
    /\ service' \in (IF service = Unlinked THEN Services ELSE {service})
    /\ LET t == StartPlan(NewPlanTask(maxStepReached, basics, outcomes, structure, TRUE))
       IN  /\ tasks' = Append(tasks, t)
           /\ SettlePlan(t, <<"Developing detailed content...">>)
           /\ status' = IF t.phase = "pending" THEN GENERATING_PLAN ELSE IDLE
           /\ error' = IF t.phase = "rejected"
                       THEN "Failed to generate final content" ELSE Null
    /\ UNCHANGED <<isRefining, basics, outcomes, structure, iceBreakerOptions,
                   now, apiKey, db, savedCourses, saves>>

\* a module detail call returns
DetailReturns(i, resp) ==
    /\ tasks[i].kind = "plan" /\ Pending(i) /\ tasks[i].call = "detail"
    /\ LET t == AfterDetail(tasks[i], resp)
       IN  /\ tasks' = [tasks EXCEPT ![i] = t]
           /\ loadingMsg' = LastProgress(t, loadingMsg)
    /\ UNCHANGED <<step, maxStepReached, status, isRefining, error, basics, outcomes,
                   structure, iceBreakerOptions, coursePlan, quota, now,
                   apiKey, db, savedCourses, saves, service>>

\* an end-of-day call returns
FinalReturns(i, resp) ==
    /\ tasks[i].kind = "plan" /\ Pending(i) /\ tasks[i].call = "final"
    /\ LET t == AfterFinal(tasks[i], resp)
       IN  /\ tasks' = [tasks EXCEPT ![i] = t]
           /\ SettlePlan(t, loadingMsg)
           /\ status' = IF t.phase = "pending" THEN status ELSE IDLE
    /\ UNCHANGED <<isRefining, error, basics, outcomes, structure,
                   iceBreakerOptions, quota, now, apiKey, db, savedCourses, saves, service>>

(***************************************************************************)
(* Date.now(): a read returns the tick of the last read or a later one.    *)
(***************************************************************************)
Ticks == {t \in {now, now + 1} : t <= MaxClock}

(***************************************************************************)
(* Step 1 -> 2: basics and generateSuggestedOutcomes.                      *)
(***************************************************************************)
BasicsValues == [courseTitle |-> {"", "Leadership 101"}]

\* the inputs of lines 288-292 (trainerName and location are set the same way
\* and read by no handler)
SetBasics(field, val) ==
    /\ step = 1
    /\ quota > 0
    /\ basics[field] # val
    /\ basics' = [basics EXCEPT ![field] = val]
    /\ quota' = quota - 1
    /\ UNCHANGED <<step, maxStepReached, status, loadingMsg, isRefining, error,
                   outcomes, structure, iceBreakerOptions, coursePlan, tasks, now, apiKey, db, savedCourses, saves, service>>

OutcomeBodies ==
    { <<>>, <<[text |-> "Apply"], [text |-> "Analyze"], [text |-> "Demonstrate"]>> }
OutcomeResponses == {Failure} \cup {Success(b) : b \in OutcomeBodies}

\* generateOutcomes lines 67-71
MintOutcomes(raw, t) == [i \in 1..Len(raw) |-> [id |-> <<"lo", t, i - 1>>, text |-> raw[i].text]]

FallbackOutcomes == <<[id |-> <<"1">>, text |-> ""]>>

\* SettleOutcomes without the placeholder of the catch block
SettleOutcomesKeeps(resp, cMax, t) ==
    /\ IF resp.ok
       THEN /\ outcomes' = MintOutcomes(resp.body, t)
            /\ UNCHANGED error
       ELSE /\ UNCHANGED outcomes
            /\ error' = "Failed to generate outcomes"
    /\ AdvanceStep(2, cMax)
    /\ status' = IDLE

\* generateSuggestedOutcomes after generateOutcomes settled
SettleOutcomes(resp, cMax, t) ==
    /\ IF resp.ok
       THEN /\ outcomes' = MintOutcomes(resp.body, t)
            /\ UNCHANGED error
       ELSE /\ outcomes' = FallbackOutcomes
            /\ error' = "Failed to generate outcomes"
    /\ AdvanceStep(2, cMax)
    /\ status' = IDLE

\* GenerateSuggestedOutcomes without the test of the title
GenerateSuggestedOutcomesNoGuard ==
    /\ step = 1
    /\ status = IDLE
    /\ quota > 0
    /\ quota' = quota - 1
    /\ loadingMsg' = <<"Drafting simple English outcomes...">>
    /\ LET t == [kind |-> "outcomes", cMax |-> maxStepReached,
                 phase |-> IF apiKey THEN "pending" ELSE "rejected"]
       IN  /\ tasks' = Append(tasks, t)
           /\ IF apiKey
              THEN /\ error' = Null
                   /\ status' = GENERATING_OUTCOMES
                   /\ UNCHANGED <<step, maxStepReached, outcomes>>
              ELSE SettleOutcomes(Failure, maxStepReached, now)
    /\ UNCHANGED <<isRefining, basics, structure, iceBreakerOptions, coursePlan,
                   now, apiKey, db, savedCourses, saves, service>>

GenerateSuggestedOutcomes ==
    /\ step = 1
    /\ status = IDLE
    /\ IF basics.courseTitle = ""
       THEN /\ error' = "Enter title"
            /\ UNCHANGED <<step, maxStepReached, status, loadingMsg, outcomes, tasks,
                           quota>>
       ELSE /\ quota > 0
            /\ quota' = quota - 1
            /\ loadingMsg' = <<"Drafting simple English outcomes...">>
            /\ LET t == [kind |-> "outcomes", cMax |-> maxStepReached,
                         phase |-> IF apiKey THEN "pending" ELSE "rejected"]
               IN  /\ tasks' = Append(tasks, t)
                   /\ IF apiKey
                      THEN /\ error' = Null
                           /\ status' = GENERATING_OUTCOMES
                           /\ UNCHANGED <<step, maxStepReached, outcomes>>
                      ELSE SettleOutcomes(Failure, maxStepReached, now)
    /\ UNCHANGED <<isRefining, basics, structure, iceBreakerOptions, coursePlan,
                   now, apiKey, db, savedCourses, saves, service>>

OutcomesReturn(i, resp) ==
    /\ tasks[i].kind = "outcomes" /\ Pending(i)
    /\ \E t \in Ticks :
          /\ now' = IF resp.ok /\ resp.body # <<>> THEN t ELSE now
          /\ SettleOutcomes(resp, tasks[i].cMax, t)
    /\ tasks' = [tasks EXCEPT ![i].phase = IF resp.ok THEN "resolved" ELSE "rejected"]
    /\ UNCHANGED <<loadingMsg, isRefining, basics, structure, iceBreakerOptions,
                   coursePlan, quota, apiKey, db, savedCourses, saves, service>>

(***************************************************************************)
(* Step 2: the outcome list (lines 312-319) and generateStructure.         *)
(***************************************************************************)
EditOutcome(id, val) ==
    /\ step = 2
    /\ quota > 0
    /\ \E i \in 1..Len(outcomes) : outcomes[i].id = id /\ outcomes[i].text # val
    /\ outcomes' = [i \in 1..Len(outcomes) |->
                       IF outcomes[i].id = id THEN [outcomes[i] EXCEPT !.text = val]
                       ELSE outcomes[i]]
    /\ quota' = quota - 1
    /\ UNCHANGED <<step, maxStepReached, status, loadingMsg, isRefining, error, basics,
                   structure, iceBreakerOptions, coursePlan, tasks, now,
                   apiKey, db, savedCourses, saves, service>>

RemoveOutcome(id) ==
    /\ step = 2
    /\ quota > 0
    /\ \E i \in 1..Len(outcomes) : outcomes[i].id = id
    /\ outcomes' = SelectSeq(outcomes, LAMBDA x : x.id # id)
    /\ quota' = quota - 1
    /\ UNCHANGED <<step, maxStepReached, status, loadingMsg, isRefining, error, basics,
                   structure, iceBreakerOptions, coursePlan, tasks, now,
                   apiKey, db, savedCourses, saves, service>>

AddOutcome ==
    /\ step = 2
    /\ quota > 0
    /\ \E t \in Ticks :
          /\ now' = t
          /\ outcomes' = Append(outcomes, [id |-> <<"ts", t>>, text |-> ""])
    /\ quota' = quota - 1
    /\ UNCHANGED <<step, maxStepReached, status, loadingMsg, isRefining, error, basics,
                   structure, iceBreakerOptions, coursePlan, tasks, apiKey, db, savedCourses, saves,
                   service>>

\* setStructure with day objects no running assembly holds
Detached(ts) ==
    [i \in 1..Len(ts) |->
        IF ts[i].kind = "plan" THEN [ts[i] EXCEPT !.aliased = FALSE] ELSE ts[i]]

Upper == "ABCDEFGHIJKLMNOPQRSTUVWXYZ"
Lower == "abcdefghijklmnopqrstuvwxyz"

\* String.prototype.toLowerCase on the ASCII letters
RECURSIVE ToLowerCase(_)
ToLowerCase(str) ==
    IF str = "" THEN ""
    ELSE LET c == SubSeq(str, 1, 1)
             ks == {k \in 1..Len(Upper) : SubSeq(Upper, k, k) = c}
         IN  (IF ks = {} THEN c ELSE SubSeq(Lower, CHOOSE k \in ks : TRUE, CHOOSE k \in ks : TRUE))
             \o ToLowerCase(SubSeq(str, 2, Len(str)))

\* String.prototype.includes
Includes(str, sub) ==
    \E k \in 1..(Len(str) - Len(sub) + 1) : SubSeq(str, k, k + Len(sub) - 1) = sub

\* generateCourseStructure lines 82-88: the day count written into the prompt
NumDays(duration) ==
    LET durationLower == ToLowerCase(duration)
    IN  IF Includes(durationLower, "5 day") THEN 5
        ELSE IF Includes(durationLower, "4 day") THEN 4
        ELSE IF Includes(durationLower, "3 day") THEN 3
        ELSE IF Includes(durationLower, "2 day") THEN 2
        ELSE 1

\* GenerateStructure without the check of the number of outcomes
GenerateStructureNoGuard ==
    /\ step = 2
    /\ status = IDLE
    /\ quota > 0
    /\ quota' = quota - 1
    /\ loadingMsg' = <<"Outlining course modules...">>
    /\ tasks' = Append(tasks, [kind |-> "structure", cMax |-> maxStepReached,
                               numDays |-> NumDays(basics.duration),
                               phase |-> IF apiKey THEN "pending" ELSE "rejected"])
    /\ error' = IF apiKey THEN Null ELSE "Failed to outline structure"
    /\ status' = IF apiKey THEN GENERATING_STRUCTURE ELSE IDLE
    /\ UNCHANGED <<step, maxStepReached, isRefining, basics, outcomes, structure,
                   iceBreakerOptions, coursePlan, now, apiKey, db, savedCourses, saves, service>>

GenerateStructure ==
    /\ step = 2
    /\ status = IDLE
    /\ IF Len(outcomes) < 3
       THEN /\ error' = "Need at least 3 outcomes"
            /\ UNCHANGED <<status, loadingMsg, tasks, quota>>
       ELSE /\ quota > 0
            /\ quota' = quota - 1
            /\ loadingMsg' = <<"Outlining course modules...">>
            /\ tasks' = Append(tasks, [kind |-> "structure", cMax |-> maxStepReached,
                                       numDays |-> NumDays(basics.duration),
                                       phase |-> IF apiKey THEN "pending" ELSE "rejected"])
            /\ error' = IF apiKey THEN Null ELSE "Failed to outline structure"
            /\ status' = IF apiKey THEN GENERATING_STRUCTURE ELSE IDLE
    /\ UNCHANGED <<step, maxStepReached, isRefining, basics, outcomes, structure,
                   iceBreakerOptions, coursePlan, now, apiKey, db, savedCourses, saves, service>>

StructureBodies == {<<>>, <<RawDay(1, 1)>>, <<RawDay(1, 1), RawDay(2, 1)>>}
StructureResponses == {Failure} \cup {Success(b) : b \in StructureBodies}

\* StructureReturn storing an empty skeleton when the run failed
StructureReturnClearsOnFailure(i, resp) ==
    /\ tasks[i].kind = "structure" /\ Pending(i)
    /\ IF resp.ok
       THEN \E t \in Ticks :
               /\ now' = IF \E d \in 1..Len(resp.body) : resp.body[d].modules # <<>>
                         THEN t ELSE now
               /\ structure' = Hydrate(resp.body, t)
               /\ AdvanceStep(3, tasks[i].cMax)
               /\ tasks' = [Detached(tasks) EXCEPT ![i].phase = "resolved"]
               /\ UNCHANGED error
       ELSE /\ error' = "Failed to outline structure"
            /\ structure' = <<>>
            /\ tasks' = [Detached(tasks) EXCEPT ![i].phase = "rejected"]
            /\ UNCHANGED <<step, maxStepReached, now>>
    /\ status' = IDLE
    /\ UNCHANGED <<loadingMsg, isRefining, basics, outcomes, iceBreakerOptions,
                   coursePlan, quota, apiKey, db, savedCourses, saves, service>>

StructureReturn(i, resp) ==
    /\ tasks[i].kind = "structure" /\ Pending(i)
    /\ IF resp.ok
       THEN \E t \in Ticks :
               /\ now' = IF \E d \in 1..Len(resp.body) : resp.body[d].modules # <<>>
                         THEN t ELSE now
               /\ structure' = Hydrate(resp.body, t)
               /\ AdvanceStep(3, tasks[i].cMax)
               /\ tasks' = [Detached(tasks) EXCEPT ![i].phase = "resolved"]
               /\ UNCHANGED error
       ELSE /\ error' = "Failed to outline structure"
            /\ tasks' = [tasks EXCEPT ![i].phase = "rejected"]
            /\ UNCHANGED <<step, maxStepReached, structure, now>>
    /\ status' = IDLE
    /\ UNCHANGED <<loadingMsg, isRefining, basics, outcomes, iceBreakerOptions,
                   coursePlan, quota, apiKey, db, savedCourses, saves, service>>

(***************************************************************************)
(* Step 3: addModule, updateModuleTitle, the duration input, removeModule. *)
(* Each copies the array and writes into the day object it shares with it, *)
(* which is also the object a running assembly reads.                      *)
(***************************************************************************)
InPlace(dIdx, OnDay(_), OnTask(_)) ==
    /\ structure' = [structure EXCEPT ![dIdx] = OnDay(@)]
    /\ tasks' = [i \in 1..Len(tasks) |->
                    IF tasks[i].kind = "plan" /\ Pending(i) /\ tasks[i].aliased
                    THEN OnTask([tasks[i] EXCEPT !.skel[dIdx] = OnDay(@)])
                    ELSE tasks[i]]

\* whether partialMod of task t is the module object at (dIdx, mIdx)
IsPartialMod(t, dIdx, mIdx) == t.call = "detail" /\ t.d = dIdx /\ t.pmIdx = mIdx

StructureFrame ==
    UNCHANGED <<step, maxStepReached, status, loadingMsg, isRefining, error, basics,
                outcomes, iceBreakerOptions, coursePlan, apiKey, db, savedCourses, saves, service>>

NewModule(t) ==
    [id |-> <<"new", t>>, title |-> "New Module", duration |-> "1 hour",
     subModules |-> <<>>, methodology |-> "", resources |-> ""]

\* AddModule appending the new module to the assembled plan's day as well
AddModuleSyncsPlan(dIdx) ==
    /\ step = 3
    /\ quota > 0
    /\ dIdx \in 1..Len(structure)
    /\ \E t \in Ticks :
          /\ now' = t
          /\ InPlace(dIdx, LAMBDA day : [day EXCEPT !.modules = Append(@, NewModule(t))],
                     LAMBDA task : task)
          /\ coursePlan' = IF coursePlan # <<>> /\ dIdx <= Len(coursePlan[1].schedule)
                           THEN <<[coursePlan[1] EXCEPT !.schedule[dIdx].modules =
                                                            Append(@, NewModule(t))]>>
                           ELSE coursePlan
    /\ quota' = quota - 1
    /\ UNCHANGED <<step, maxStepReached, status, loadingMsg, isRefining, error, basics,
                   outcomes, iceBreakerOptions, apiKey, db, savedCourses, saves, service>>
AddModule(dIdx) ==
    /\ step = 3
    /\ quota > 0
    /\ dIdx \in 1..Len(structure)
    /\ \E t \in Ticks :
          /\ now' = t
          /\ InPlace(dIdx, LAMBDA day : [day EXCEPT !.modules = Append(@, NewModule(t))],
                     LAMBDA task : task)
    /\ quota' = quota - 1
    /\ StructureFrame

SetModuleField(dIdx, mIdx, field, val) ==
    /\ step = 3
    /\ quota > 0
    /\ dIdx \in 1..Len(structure)
    /\ mIdx \in 1..Len(structure[dIdx].modules)
    /\ structure[dIdx].modules[mIdx][field] # val
    /\ InPlace(dIdx, LAMBDA day : [day EXCEPT !.modules[mIdx][field] = val],
               LAMBDA task : IF IsPartialMod(task, dIdx, mIdx)
                             THEN [task EXCEPT !.pm[field] = val] ELSE task)
    /\ quota' = quota - 1
    /\ UNCHANGED now
    /\ StructureFrame

UpdateModuleTitle(dIdx, mIdx, val) == SetModuleField(dIdx, mIdx, "title", val)

UpdateModuleDuration(dIdx, mIdx, val) == SetModuleField(dIdx, mIdx, "duration", val)

RemoveModule(dIdx, mIdx) ==
    /\ step = 3
    /\ quota > 0
    /\ dIdx \in 1..Len(structure)
    /\ mIdx \in 1..Len(structure[dIdx].modules)
    /\ InPlace(dIdx, LAMBDA day : [day EXCEPT !.modules = RemoveAt(@, mIdx)],
               LAMBDA task : IF task.call = "detail" /\ task.d = dIdx
                             THEN [task EXCEPT !.pmIdx = IF @ = mIdx THEN 0
                                                         ELSE IF @ > mIdx THEN @ - 1
                                                         ELSE @]
                             ELSE task)
    /\ quota' = quota - 1
    /\ UNCHANGED now
    /\ StructureFrame

(***************************************************************************)
(* Step 3 -> 4: prepareIceBreakers, loadIceBreakerOptions, selectIceBreaker*)
(***************************************************************************)
IceBreaker(title) == [title |-> title, description |-> "How to run it", duration |-> "15 mins"]

IceBreakerBodies == { <<IceBreaker("Name game")>>, <<IceBreaker("Two truths")>> }
IceBreakerResponses == {Failure} \cup {Success(b) : b \in IceBreakerBodies}

\* loadIceBreakerOptions up to its await; dayIndex is 0-based as in the code
StartIceBreakers(dayNum, dayIndex) ==
    /\ quota > 0
    /\ quota' = quota - 1
    /\ loadingMsg' = <<"Thinking of fun ideas for Day", dayNum>>
    /\ tasks' = Append(tasks, [kind |-> "icebreakers", dayIndex |-> dayIndex,
                               phase |-> IF apiKey THEN "pending" ELSE "rejected"])
    /\ status' = IF apiKey THEN GENERATING_ICEBREAKERS ELSE IDLE

PrepareIceBreakers ==
    /\ step = 3
    /\ AdvanceStep(4, maxStepReached)
    /\ IF 0 \in DOMAIN iceBreakerOptions
       THEN UNCHANGED <<status, loadingMsg, tasks, quota>>
       ELSE StartIceBreakers(1, 0)
    /\ UNCHANGED <<isRefining, error, basics, outcomes, structure, iceBreakerOptions,
                   coursePlan, now, apiKey, db, savedCourses, saves, service>>

\* the Refresh Ideas button of a day
RefreshIdeas(dIdx) ==
    /\ step = 4
    /\ status # GENERATING_ICEBREAKERS
    /\ dIdx \in 1..Len(structure)
    /\ StartIceBreakers(structure[dIdx].dayNumber, dIdx - 1)
    /\ UNCHANGED <<step, maxStepReached, isRefining, error, basics, outcomes,
                   structure, iceBreakerOptions, coursePlan, now, apiKey, db, savedCourses, saves,
                   service>>

\* IceBreakersReturn selecting the first candidate it stores
IceBreakersReturnSelects(i, resp) ==
    /\ tasks[i].kind = "icebreakers" /\ Pending(i)
    /\ iceBreakerOptions' = IF resp.ok
                            THEN Spread(iceBreakerOptions, tasks[i].dayIndex :> resp.body)
                            ELSE iceBreakerOptions
    /\ structure' = [d \in 1..Len(structure) |->
                        IF resp.ok /\ d = tasks[i].dayIndex + 1
                        THEN [structure[d] EXCEPT !.iceBreaker = resp.body[1]]
                        ELSE structure[d]]
    /\ tasks' = [tasks EXCEPT ![i].phase = IF resp.ok THEN "resolved" ELSE "rejected"]
    /\ status' = IDLE
    /\ UNCHANGED <<step, maxStepReached, loadingMsg, isRefining, error, basics,
                   outcomes, coursePlan, quota, now, apiKey, db, savedCourses, saves, service>>

\* IceBreakersReturn without the finally block
IceBreakersReturnNoFinally(i, resp) ==
    /\ tasks[i].kind = "icebreakers" /\ Pending(i)
    /\ iceBreakerOptions' = IF resp.ok
                            THEN Spread(iceBreakerOptions, tasks[i].dayIndex :> resp.body)
                            ELSE iceBreakerOptions
    /\ tasks' = [tasks EXCEPT ![i].phase = IF resp.ok THEN "resolved" ELSE "rejected"]
    /\ status' = IF resp.ok THEN IDLE ELSE status
    /\ UNCHANGED <<step, maxStepReached, loadingMsg, isRefining, error, basics,
                   outcomes, structure, coursePlan, quota, now, apiKey, db, savedCourses, saves,
                   service>>

IceBreakersReturn(i, resp) ==
    /\ tasks[i].kind = "icebreakers" /\ Pending(i)
    /\ iceBreakerOptions' = IF resp.ok
                            THEN Spread(iceBreakerOptions, tasks[i].dayIndex :> resp.body)
                            ELSE iceBreakerOptions
    /\ tasks' = [tasks EXCEPT ![i].phase = IF resp.ok THEN "resolved" ELSE "rejected"]
    /\ status' = IDLE
    /\ UNCHANGED <<step, maxStepReached, loadingMsg, isRefining, error, basics,
                   outcomes, structure, coursePlan, quota, now, apiKey, db, savedCourses, saves,
                   service>>

SelectIceBreaker(dIdx, k) ==
    /\ step = 4
    /\ quota > 0
    /\ dIdx \in 1..Len(structure)
    /\ (dIdx - 1) \in DOMAIN iceBreakerOptions
    /\ k \in 1..Len(iceBreakerOptions[dIdx - 1])
    /\ structure[dIdx].iceBreaker # iceBreakerOptions[dIdx - 1][k]
    /\ InPlace(dIdx, LAMBDA day : [day EXCEPT !.iceBreaker = iceBreakerOptions[dIdx - 1][k]],
               LAMBDA task : task)
    /\ quota' = quota - 1
    /\ UNCHANGED now
    /\ StructureFrame

(***************************************************************************)
(* Navigation: the progress bar, the logo, Back and Edit Structure.        *)
(***************************************************************************)
CanNavigate(n) ==
    \/ n <= maxStepReached
    \/ n = 1
    \/ step \in {3, 4} /\ n = step - 1
    \/ step = 5 /\ coursePlan # <<>> /\ n = 3

\* Navigate with the buttons disabled while a generation runs
NavigateWhenIdle(n) ==
    /\ status = IDLE
    /\ CanNavigate(n)
    /\ n # step
    /\ step' = n
    /\ UNCHANGED <<maxStepReached, status, loadingMsg, isRefining, error, basics,
                   outcomes, structure, iceBreakerOptions, coursePlan, tasks, quota,
                   now, apiKey, db, savedCourses, saves, service>>

Navigate(n) ==
    /\ CanNavigate(n)
    /\ n # step
    /\ step' = n
    /\ UNCHANGED <<maxStepReached, status, loadingMsg, isRefining, error, basics,
                   outcomes, structure, iceBreakerOptions, coursePlan, tasks, quota,
                   now, apiKey, db, savedCourses, saves, service>>

(***************************************************************************)
(* Strings: join, split and trim as JavaScript computes them.              *)
(***************************************************************************)
RECURSIVE Join(_, _)
Join(ss, sep) ==
    IF ss = <<>> THEN ""
    ELSE IF Len(ss) = 1 THEN ss[1]
    ELSE ss[1] \o sep \o Join(Tail(ss), sep)

\* str.split(c) for a one-character separator c
RECURSIVE SplitFrom(_, _, _, _)
SplitFrom(str, c, from, i) ==
    IF i > Len(str) THEN <<SubSeq(str, from, Len(str))>>
    ELSE IF SubSeq(str, i, i) = c
         THEN <<SubSeq(str, from, i - 1)>> \o SplitFrom(str, c, i + 1, i + 1)
         ELSE SplitFrom(str, c, from, i + 1)

Split(str, c) == SplitFrom(str, c, 1, 1)

WhiteSpace == {" ", "\n", "\t"}

RECURSIVE Trim(_)
Trim(str) ==
    IF str = "" THEN ""
    ELSE IF SubSeq(str, 1, 1) \in WhiteSpace THEN Trim(SubSeq(str, 2, Len(str)))
    ELSE IF SubSeq(str, Len(str), Len(str)) \in WhiteSpace
         THEN Trim(SubSeq(str, 1, Len(str) - 1))
    ELSE str

(***************************************************************************)
(* Step 5: SessionPlanTable's updaters.  Each closes over the `plan` prop  *)
(* of the render that created it.                                          *)
(***************************************************************************)
UpdateBasics(plan, field, value) ==
    Spread(plan, [basics |-> Spread(plan.basics, field :> value)])

UpdateOutcome(plan, index, value) ==
    Spread(plan, [outcomes |-> [plan.outcomes EXCEPT ![index] = Spread(@, [text |-> value])]])

UpdateDay(plan, dayIndex, Updater(_)) ==
    Spread(plan, [schedule |-> [plan.schedule EXCEPT ![dayIndex] = Updater(@)]])

UpdateModule(plan, dayIndex, modIndex, field, value) ==
    UpdateDay(plan, dayIndex,
              LAMBDA day : Spread(day, [modules |-> [day.modules EXCEPT ![modIndex] =
                                                        Spread(@, field :> value)]]))

\* the numbers of a render that starts its counter afresh on every day
NumberModulesPerDay(schedule, d, counter) ==
    [k \in 1..(Len(schedule) - d + 1) |->
        [m \in 1..Len(schedule[d + k - 1].modules) |-> counter + m - 1]]

\* lines 235-236: the days' module rows take their numbers from the counter
\* and advance it, from day d on
RECURSIVE NumberModules(_, _, _)
NumberModules(schedule, d, counter) ==
    IF d > Len(schedule) THEN <<>>
    ELSE <<[m \in 1..Len(schedule[d].modules) |-> counter + m - 1]>>
         \o NumberModules(schedule, d + 1, counter + Len(schedule[d].modules))

\* line 83: every render starts the counter at 1
ModuleNumbers(plan) == NumberModules(plan.schedule, 1, 1)

\* line 254: the label of the sub-point at the 0-based index sIdx
SubPointLabel(currentModuleNum, sIdx) == <<currentModuleNum, sIdx + 1>>


\* what the table needs to render without throwing: line 252 maps over
\* mod.subModules and line 332 joins day.reviewQuestions
Renders(plan) ==
    \A d \in 1..Len(plan.schedule) :
        /\ Has(plan.schedule[d], "reviewQuestions")
        /\ \A m \in 1..Len(plan.schedule[d].modules) :
              Has(plan.schedule[d].modules[m], "subModules")

TableShown == step = 5 /\ coursePlan # <<>> /\ Renders(coursePlan[1])

ModuleTextFields == {"title", "resources", "methodology", "duration", "slideNumbers"}
IceBreakerFields == {"title", "description", "duration"}

\* the text inputs of the table: <<name, d, m>>
DayPaths(plan, d) ==
    {<<"iceBreaker." \o f, d, 0>> : f \in IceBreakerFields}
    \cup {<<"summary", d, 0>>, <<"reviewQuestions", d, 0>>}
    \cup (IF Truthy(plan.schedule[d], "recap") THEN {<<"recap", d, 0>>} ELSE {})
    \cup {<<f, d, m>> : f \in ModuleTextFields, m \in 1..Len(plan.schedule[d].modules)}

TextPaths(plan) ==
    {<<"basics." \o f, 0, 0>> : f \in DOMAIN plan.basics}
    \cup {<<"outcome", i, 0>> : i \in 1..Len(plan.outcomes)}
    \cup UNION {DayPaths(plan, d) : d \in 1..Len(plan.schedule)}

\* the inputs that pass onRefine
RefinableNames ==
    {"outcome", "recap", "iceBreaker.description", "methodology", "summary",
     "reviewQuestions"}

RefinePaths(plan) == {p \in TextPaths(plan) : p[1] \in RefinableNames}

OrEmpty(o, f) == IF Has(o, f) THEN o[f] ELSE ""

\* the value attribute of the input at path p
FieldText(plan, p) ==
    LET name == p[1]
        day == plan.schedule[p[2]]
    IN  CASE name = "basics.courseTitle" -> plan.basics.courseTitle
          [] name = "basics.duration" -> plan.basics.duration
          [] name = "outcome" -> OrEmpty(plan.outcomes[p[2]], "text")
          [] name = "recap" -> OrEmpty(day, "recap")
          [] name = "summary" -> OrEmpty(day, "summary")
          [] name = "reviewQuestions" -> Join(day.reviewQuestions, "\n")
          [] name = "iceBreaker.title" -> day.iceBreaker.title
          [] name = "iceBreaker.description" -> day.iceBreaker.description
          [] name = "iceBreaker.duration" -> day.iceBreaker.duration
          [] OTHER -> OrEmpty(day.modules[p[3]], name)

\* the onChange handler of the input at path p, which is also the callback
\* its onRefine passes
WriteField(plan, p, val) ==
    LET name == p[1]
        SetIceBreaker(f) ==
            UpdateDay(plan, p[2],
                      LAMBDA d : Spread(d, [iceBreaker |-> Spread(d.iceBreaker, f :> val)]))
    IN  CASE name = "basics.courseTitle" -> UpdateBasics(plan, "courseTitle", val)
          [] name = "basics.duration" -> UpdateBasics(plan, "duration", val)
          [] name = "outcome" -> UpdateOutcome(plan, p[2], val)
          [] name = "recap" -> UpdateDay(plan, p[2], LAMBDA d : Spread(d, [recap |-> val]))
          [] name = "summary" -> UpdateDay(plan, p[2], LAMBDA d : Spread(d, [summary |-> val]))
          [] name = "reviewQuestions" ->
                UpdateDay(plan, p[2],
                          LAMBDA d : Spread(d, [reviewQuestions |-> Split(val, "\n")]))
          [] name = "iceBreaker.title" -> SetIceBreaker("title")
          [] name = "iceBreaker.description" -> SetIceBreaker("description")
          [] name = "iceBreaker.duration" -> SetIceBreaker("duration")
          [] OTHER -> UpdateModule(plan, p[2], p[3], name, val)

PlanFrame ==
    UNCHANGED <<step, maxStepReached, status, loadingMsg, error, basics, outcomes,
                structure, iceBreakerOptions, now, apiKey, db, savedCourses, saves, service>>

EditTexts == {"Edited"}

\* typing into the input at path p
EditField(p, val) ==
    /\ TableShown
    /\ quota > 0
    /\ p \in TextPaths(coursePlan[1])
    /\ FieldText(coursePlan[1], p) # val
    /\ coursePlan' = <<WriteField(coursePlan[1], p, val)>>
    /\ quota' = quota - 1
    /\ UNCHANGED <<isRefining, tasks>>
    /\ PlanFrame

\* the sub-module list of a module: edit, remove and + Add Item (lines 252-276)
SubModuleEdits(d, m) ==
    IF TableShown /\ d \in 1..Len(coursePlan[1].schedule)
                  /\ m \in 1..Len(coursePlan[1].schedule[d].modules)
    THEN LET old == coursePlan[1].schedule[d].modules[m].subModules
         IN  {[old EXCEPT ![k] = "Edited"] : k \in 1..Len(old)}
             \cup {RemoveAt(old, k) : k \in 1..Len(old)}
             \cup {Append(old, "New Sub-module")}
    ELSE {}

EditSubModules(d, m, subs) ==
    /\ TableShown
    /\ quota > 0
    /\ subs \in SubModuleEdits(d, m)
    /\ coursePlan' = <<UpdateModule(coursePlan[1], d, m, "subModules", subs)>>
    /\ quota' = quota - 1
    /\ UNCHANGED <<isRefining, tasks>>
    /\ PlanFrame

(***************************************************************************)
(* handleRefine and refineContent.                                         *)
(***************************************************************************)
RefineBodies == {" Refined text\n", "  "}
RefineResponses == {Failure} \cup {Success(b) : b \in RefineBodies}

\* refineContent line 350
RefinedText(body, text) == IF Trim(body) # "" THEN Trim(body) ELSE text

RefineTask(p, text, phase) ==
    [kind |-> "refine", phase |-> phase, path |-> p, text |-> text,
     cPlan |-> coursePlan[1], called |-> phase = "pending", applied |-> FALSE]

\* StartRefine without the early return of line 194
StartRefineNoGuard(p, text) ==
    IF apiKey
    THEN /\ tasks' = Append(tasks, RefineTask(p, text, "pending"))
         /\ isRefining' = TRUE
    ELSE /\ tasks' = Append(tasks, RefineTask(p, text, "rejected"))
         /\ isRefining' = FALSE

\* handleRefine up to its await; line 194 returns at once for an empty text
StartRefine(p, text) ==
    IF text = ""
    THEN /\ tasks' = Append(tasks, RefineTask(p, text, "skipped"))
         /\ UNCHANGED isRefining
    ELSE IF apiKey
    THEN /\ tasks' = Append(tasks, RefineTask(p, text, "pending"))
         /\ isRefining' = TRUE
    ELSE /\ tasks' = Append(tasks, RefineTask(p, text, "rejected"))
         /\ isRefining' = FALSE

\* HandleRefine with the button enabled while a refinement is pending
HandleRefineNotDisabled(p) ==
    /\ TableShown
    /\ p \in RefinePaths(coursePlan[1])
    /\ quota > 0
    /\ quota' = quota - 1
    /\ StartRefine(p, FieldText(coursePlan[1], p))
    /\ UNCHANGED coursePlan
    /\ PlanFrame

\* the refine button of the input at path p
HandleRefine(p) ==
    /\ TableShown
    /\ ~isRefining
    /\ p \in RefinePaths(coursePlan[1])
    /\ quota > 0
    /\ quota' = quota - 1
    /\ StartRefine(p, FieldText(coursePlan[1], p))
    /\ UNCHANGED coursePlan
    /\ PlanFrame

\* RefineReturn passing the original text to the callback when the call failed
RefineReturnAppliesOnFailure(i, resp) ==
    /\ tasks[i].kind = "refine" /\ Pending(i)
    /\ coursePlan' = <<WriteField(tasks[i].cPlan, tasks[i].path,
                                  IF resp.ok THEN RefinedText(resp.body, tasks[i].text)
                                  ELSE tasks[i].text)>>
    /\ tasks' = [tasks EXCEPT ![i].phase = IF resp.ok THEN "resolved" ELSE "rejected",
                              ![i].applied = TRUE]
    /\ isRefining' = FALSE
    /\ UNCHANGED quota
    /\ PlanFrame

RefineReturn(i, resp) ==
    /\ tasks[i].kind = "refine" /\ Pending(i)
    /\ IF resp.ok
       THEN /\ coursePlan' = <<WriteField(tasks[i].cPlan, tasks[i].path,
                                          RefinedText(resp.body, tasks[i].text))>>
            /\ tasks' = [tasks EXCEPT ![i].phase = "resolved", ![i].applied = TRUE]
       ELSE /\ UNCHANGED coursePlan
            /\ tasks' = [tasks EXCEPT ![i].phase = "rejected"]
    /\ isRefining' = FALSE
    /\ UNCHANGED quota
    /\ PlanFrame

(***************************************************************************)
(* handleLoad, from the saved list or an imported file.                    *)
(***************************************************************************)
Outcome(id, text) == [id |-> id, text |-> text]

ThreeOutcomes ==
    <<Outcome(<<"lo", 0, 0>>, "Apply"), Outcome(<<"lo", 0, 1>>, "Analyze"),
      Outcome(<<"lo", 0, 2>>, "Demonstrate")>>

SavedModule ==
    [id |-> <<"d", 0, "m", 0, 0>>, title |-> "Intro", duration |-> "1 hour",
     subModules |-> <<"point">>, methodology |-> "Lecture", resources |-> "Slides"]

SavedDay ==
    [dayNumber |-> 1, iceBreaker |-> IceBreaker("Name game"), modules |-> <<SavedModule>>,
     summary |-> "Day summary", reviewQuestions |-> <<>>]

SavedCourses ==
    { [id |-> "uuid-0", lastModified |-> 0,
       basics |-> [courseTitle |-> "Saved course", duration |-> "1 Day"],
       outcomes |-> ThreeOutcomes, schedule |-> <<SavedDay>>] }

\* StructureOf taking the saved days as they are
StructureOfKeepsContent(saved) == saved.schedule

\* line 66
StructureOf(saved) ==
    [d \in 1..Len(saved.schedule) |->
        Spread(saved.schedule[d],
               [modules |-> [m \in 1..Len(saved.schedule[d].modules) |->
                                Spread(saved.schedule[d].modules[m],
                                       [subModules |-> <<>>, methodology |-> "",
                                        resources |-> ""])]])]

\* HandleLoad leaving coursePlan as it is
HandleLoadKeepsPlan(saved) ==
    /\ basics' = saved.basics
    /\ outcomes' = saved.outcomes
    /\ structure' = StructureOf(saved)
    /\ tasks' = Detached(tasks)
    /\ step' = 5
    /\ maxStepReached' = 5
    /\ UNCHANGED <<status, loadingMsg, isRefining, error, iceBreakerOptions, coursePlan,
                   quota, now, apiKey, db, savedCourses, saves, service>>

HandleLoad(saved) ==
    /\ basics' = saved.basics
    /\ outcomes' = saved.outcomes
    /\ structure' = StructureOf(saved)
    /\ tasks' = Detached(tasks)
    /\ coursePlan' = <<saved>>
    /\ step' = 5
    /\ maxStepReached' = 5
    /\ UNCHANGED <<status, loadingMsg, isRefining, error, iceBreakerOptions, quota,
                   now, apiKey, db, savedCourses, saves, service>>

(***************************************************************************)
(* dbService: the object store "courses" with key path id, and the App's   *)
(* handlers over it.                                                       *)
(***************************************************************************)
\* crypto.randomUUID(): the n-th call returns a value no other call returns
RandomUUID(n) == "uuid-" \o ToString(n)

\* SavedItem minting an identifier for every plan
SavedItemAlwaysFresh(plan, uuid, t) ==
    Spread(plan, [id |-> uuid, lastModified |-> t])

\* dbService.ts lines 27-31
SavedItem(plan, uuid, t) ==
    Spread(plan, [id |-> IF Truthy(plan, "id") THEN plan.id ELSE uuid,
                  lastModified |-> t])

\* store.put(item)
Put(store, item) ==
    [k \in (DOMAIN store) \cup {item.id} |-> IF k = item.id THEN item ELSE store[k]]

\* store.delete(id)
Delete(store, id) == [k \in (DOMAIN store) \ {id} |-> store[k]]

\* getAllCourses: the records by lastModified, latest first; the order of
\* records of one tick is left open
GetAllCourses(store) ==
    LET n == Cardinality(DOMAIN store)
        orders == {g \in [1..n -> DOMAIN store] :
                      /\ \A i, j \in 1..n : i # j => g[i] # g[j]
                      /\ \A i \in 1..(n - 1) :
                            store[g[i]].lastModified >= store[g[i + 1]].lastModified}
    IN  {[i \in 1..n |-> store[g[i]]] : g \in orders}

\* the Saved Courses button: loadSavedList
LoadSavedList ==
    /\ savedCourses' \in GetAllCourses(db)
    /\ UNCHANGED <<step, maxStepReached, status, loadingMsg, isRefining, error, basics,
                   outcomes, structure, iceBreakerOptions, coursePlan, tasks, quota,
                   now, apiKey, service, db, saves>>

\* handleSave with saveCourseToDB and, after it resolved, loadSavedList; the
\* transaction completes (ok) or fails and writes nothing
HandleSave ==
    /\ step = 5
    /\ coursePlan # <<>>
    /\ quota > 0
    /\ quota' = quota - 1
    /\ \E t \in Ticks : \E ok \in BOOLEAN :
          LET savedItem == SavedItem(coursePlan[1], RandomUUID(Len(saves) + 1), t)
          IN  /\ now' = t
              /\ IF ok
                 THEN /\ db' = Put(db, savedItem)
                      /\ saves' = Append(saves, [plan |-> coursePlan[1],
                                                 phase |-> "resolved",
                                                 id |-> savedItem.id])
                      /\ savedCourses' \in GetAllCourses(db')
                 ELSE /\ saves' = Append(saves, [plan |-> coursePlan[1],
                                                 phase |-> "rejected"])
                      /\ UNCHANGED <<db, savedCourses>>
    /\ UNCHANGED <<step, maxStepReached, status, loadingMsg, isRefining, error, basics,
                   outcomes, structure, iceBreakerOptions, coursePlan, tasks,
                   apiKey, service>>

\* handleDelete, confirmed, with deleteCourse and loadSavedList
HandleDelete(id) ==
    /\ quota > 0
    /\ quota' = quota - 1
    /\ db' = Delete(db, id)
    /\ savedCourses' \in GetAllCourses(db')
    /\ UNCHANGED <<step, maxStepReached, status, loadingMsg, isRefining, error, basics,
                   outcomes, structure, iceBreakerOptions, coursePlan, tasks,
                   now, apiKey, service, saves>>

(***************************************************************************)
(* The wizard.                                                             *)
(***************************************************************************)
Init ==
    /\ step = 1
    /\ maxStepReached = 1
    /\ status = IDLE
    /\ loadingMsg = <<"Thinking...">>
    /\ isRefining = FALSE
    /\ error = Null
    /\ basics = [courseTitle |-> "", duration |-> "1 Day"]
    /\ outcomes = <<>>
    /\ structure = <<>>
    /\ iceBreakerOptions = <<>>
    /\ coursePlan = <<>>
    /\ tasks = <<>>
    /\ quota = MaxOps
    /\ now = 0
    /\ apiKey \in BOOLEAN
    /\ db = <<>>
    /\ savedCourses = <<>>
    /\ saves = <<>>
    /\ service = Unlinked

Next ==
    \/ \E f \in DOMAIN BasicsValues : \E v \in BasicsValues[f] : SetBasics(f, v)
    \/ GenerateSuggestedOutcomes
    \/ \E i \in 1..Len(tasks) : \E resp \in OutcomeResponses : OutcomesReturn(i, resp)
    \/ \E i \in 1..Len(outcomes) : EditOutcome(outcomes[i].id, "Edited")
    \/ \E i \in 1..Len(outcomes) : RemoveOutcome(outcomes[i].id)
    \/ AddOutcome
    \/ GenerateStructure
    \/ \E i \in 1..Len(tasks) : \E resp \in StructureResponses : StructureReturn(i, resp)
    \/ \E d \in 1..MaxDays : AddModule(d)
    \/ \E d \in 1..MaxDays : \E m \in 1..(MaxMods + MaxOps) :
          UpdateModuleTitle(d, m, "Edited title")
    \/ \E d \in 1..MaxDays : \E m \in 1..(MaxMods + MaxOps) :
          UpdateModuleDuration(d, m, "30 mins")
    \/ \E d \in 1..MaxDays : \E m \in 1..(MaxMods + MaxOps) : RemoveModule(d, m)
    \/ PrepareIceBreakers
    \/ \E d \in 1..MaxDays : RefreshIdeas(d)
    \/ \E i \in 1..Len(tasks) : \E resp \in IceBreakerResponses : IceBreakersReturn(i, resp)
    \/ \E d \in 1..MaxDays : \E k \in 1..3 : SelectIceBreaker(d, k)
    \/ GenerateFinal
    \/ \E i \in 1..Len(tasks) : \E resp \in DetailResponses : DetailReturns(i, resp)
    \/ \E i \in 1..Len(tasks) : \E resp \in FinalResponses : FinalReturns(i, resp)
    \/ \E n \in 1..5 : Navigate(n)
    \/ \E saved \in SavedCourses : HandleLoad(saved)
    \/ \E p \in (IF coursePlan = <<>> THEN {} ELSE TextPaths(coursePlan[1])) :
          \E v \in EditTexts : EditField(p, v)
    \/ \E d \in 1..MaxDays : \E m \in 1..MaxMods : \E subs \in SubModuleEdits(d, m) :
          EditSubModules(d, m, subs)
    \/ \E p \in (IF coursePlan = <<>> THEN {} ELSE RefinePaths(coursePlan[1])) :
          HandleRefine(p)
    \/ \E i \in 1..Len(tasks) : \E resp \in RefineResponses : RefineReturn(i, resp)

Spec == Init /\ [][Next]_vars

(***************************************************************************)
(* generateFinalPlanContent called by generateFinal while the user does    *)
(* nothing else.                                                           *)
(***************************************************************************)
InitAssembly ==
    /\ step = 4
    /\ maxStepReached = 4
    /\ status = IDLE
    /\ loadingMsg = <<"Thinking...">>
    /\ isRefining = FALSE
    /\ error = Null
    /\ basics = [courseTitle |-> "Leadership 101", duration |-> "2 Days"]
    /\ outcomes = ThreeOutcomes
    /\ structure \in {Hydrate(raw, 0) : raw \in RawStructures(MaxDays, MaxMods)}
    /\ iceBreakerOptions = <<>>
    /\ coursePlan = <<>>
    /\ tasks = <<>>
    /\ quota = 1
    /\ now = 0
    /\ apiKey \in BOOLEAN
    /\ db = <<>>
    /\ savedCourses = <<>>
    /\ saves = <<>>
    /\ service = Unlinked

NextAssembly ==
    \/ GenerateFinal
    \/ \E i \in 1..Len(tasks) : \E resp \in DetailResponses : DetailReturns(i, resp)
    \/ \E i \in 1..Len(tasks) : \E resp \in FinalResponses : FinalReturns(i, resp)

SpecAssembly == InitAssembly /\ [][NextAssembly]_vars

(***************************************************************************)
(* generateFinalPlanContent called twice with the same arguments, once     *)
(* with a progress sink and once without, the remote answering both runs   *)
(* alike.                                                                  *)
(***************************************************************************)
CallBoth ==
    /\ tasks = <<>>
    /\ quota > 0
    /\ quota' = quota - 1
    /\ service' \in (IF service = Unlinked THEN Services ELSE {service})
    /\ tasks' = [i \in 1..2 |->
                    StartPlan(NewPlanTask(maxStepReached, basics, outcomes, structure, i = 1))]
    /\ UNCHANGED <<step, maxStepReached, status, loadingMsg, isRefining, error, basics,
                   outcomes, structure, iceBreakerOptions, coursePlan, now, apiKey, db, savedCourses, saves>>

Awaiting(call) == {i \in 1..Len(tasks) : Pending(i) /\ tasks[i].call = call}

BothDetailReturn(resp) ==
    /\ Awaiting("detail") # {}
    /\ tasks' = [i \in 1..Len(tasks) |->
                    IF i \in Awaiting("detail") THEN AfterDetail(tasks[i], resp) ELSE tasks[i]]
    /\ UNCHANGED <<step, maxStepReached, status, loadingMsg, isRefining, error, basics,
                   outcomes, structure, iceBreakerOptions, coursePlan, quota, now,
                   apiKey, db, savedCourses, saves, service>>

BothFinalReturn(resp) ==
    /\ Awaiting("final") # {}
    /\ tasks' = [i \in 1..Len(tasks) |->
                    IF i \in Awaiting("final") THEN AfterFinal(tasks[i], resp) ELSE tasks[i]]
    /\ UNCHANGED <<step, maxStepReached, status, loadingMsg, isRefining, error, basics,
                   outcomes, structure, iceBreakerOptions, coursePlan, quota, now,
                   apiKey, db, savedCourses, saves, service>>

NextSink ==
    \/ CallBoth
    \/ \E resp \in DetailResponses : BothDetailReturn(resp)
    \/ \E resp \in FinalResponses : BothFinalReturn(resp)

SpecSink == InitAssembly /\ [][NextSink]_vars

(***************************************************************************)
(* The wizard's stages only: the title is typed, and the user presses the  *)
(* generation buttons, navigates and loads the saved course.               *)
(***************************************************************************)
InitStages ==
    /\ step = 1
    /\ maxStepReached = 1
    /\ status = IDLE
    /\ loadingMsg = <<"Thinking...">>
    /\ isRefining = FALSE
    /\ error = Null
    /\ basics = [courseTitle |-> "Leadership 101", duration |-> "1 Day"]
    /\ outcomes = <<>>
    /\ structure = <<>>
    /\ iceBreakerOptions = <<>>
    /\ coursePlan = <<>>
    /\ tasks = <<>>
    /\ quota = MaxStageOps
    /\ now = 0
    /\ apiKey \in BOOLEAN
    /\ db = <<>>
    /\ savedCourses = <<>>
    /\ saves = <<>>
    /\ service = Unlinked

\* per remote call, its failure and one well-formed answer
StageResponses(all) ==
    {Failure, Success(CHOOSE b \in {r.body : r \in all \ {Failure}} :
                         \A c \in {r.body : r \in all \ {Failure}} :
                             Cardinality(DOMAIN c) <= Cardinality(DOMAIN b))}

NextStages ==
    \/ GenerateSuggestedOutcomes
    \/ \E i \in 1..Len(tasks) : \E resp \in StageResponses(OutcomeResponses) :
          OutcomesReturn(i, resp)
    \/ GenerateStructure
    \/ \E i \in 1..Len(tasks) : \E resp \in StageResponses(StructureResponses) :
          StructureReturn(i, resp)
    \/ PrepareIceBreakers
    \/ \E d \in 1..MaxDays : RefreshIdeas(d)
    \/ \E i \in 1..Len(tasks) : \E resp \in StageResponses(IceBreakerResponses) :
          IceBreakersReturn(i, resp)
    \/ GenerateFinal
    \/ \E i \in 1..Len(tasks) : \E resp \in StageResponses(DetailResponses) :
          DetailReturns(i, resp)
    \/ \E i \in 1..Len(tasks) : \E resp \in StageResponses(FinalResponses) :
          FinalReturns(i, resp)
    \/ \E n \in 1..5 : Navigate(n)
    \/ \E saved \in SavedCourses : HandleLoad(saved)

SpecStages == InitStages /\ [][NextStages]_vars

(***************************************************************************)
(* The stages, every remote call returning in the end.                     *)
(***************************************************************************)
FairStages ==
    /\ WF_vars(\E i \in 1..Len(tasks) : \E resp \in StageResponses(OutcomeResponses) :
                   OutcomesReturn(i, resp))
    /\ WF_vars(\E i \in 1..Len(tasks) : \E resp \in StageResponses(StructureResponses) :
                   StructureReturn(i, resp))
    /\ WF_vars(\E i \in 1..Len(tasks) : \E resp \in StageResponses(IceBreakerResponses) :
                   IceBreakersReturn(i, resp))
    /\ WF_vars(\E i \in 1..Len(tasks) : \E resp \in StageResponses(DetailResponses) :
                   DetailReturns(i, resp))
    /\ WF_vars(\E i \in 1..Len(tasks) : \E resp \in StageResponses(FinalResponses) :
                   FinalReturns(i, resp))

InitLive ==
    /\ step = 1
    /\ maxStepReached = 1
    /\ status = IDLE
    /\ loadingMsg = <<"Thinking...">>
    /\ isRefining = FALSE
    /\ error = Null
    /\ basics = [courseTitle |-> "Leadership 101", duration |-> "1 Day"]
    /\ outcomes = <<>>
    /\ structure = <<>>
    /\ iceBreakerOptions = <<>>
    /\ coursePlan = <<>>
    /\ tasks = <<>>
    /\ quota = MaxLiveOps
    /\ now = 0
    /\ apiKey \in BOOLEAN
    /\ db = <<>>
    /\ savedCourses = <<>>
    /\ saves = <<>>
    /\ service = Unlinked

SpecLive == InitLive /\ [][NextStages]_vars /\ FairStages

(***************************************************************************)
(* The store: a browser that holds one saved course; the user opens the    *)
(* drawer, loads, edits, re-assembles, saves and deletes.                  *)
(***************************************************************************)
StoredCourses ==
    [k \in {c.id : c \in SavedCourses} |-> CHOOSE c \in SavedCourses : c.id = k]

InitStore ==
    /\ step = 1
    /\ maxStepReached = 1
    /\ status = IDLE
    /\ loadingMsg = <<"Thinking...">>
    /\ isRefining = FALSE
    /\ error = Null
    /\ basics = [courseTitle |-> "", duration |-> "1 Day"]
    /\ outcomes = <<>>
    /\ structure = <<>>
    /\ iceBreakerOptions = <<>>
    /\ coursePlan = <<>>
    /\ tasks = <<>>
    /\ quota = MaxStoreOps
    /\ now = 0
    /\ apiKey \in BOOLEAN
    /\ service = Unlinked
    /\ db = StoredCourses
    /\ savedCourses = <<>>
    /\ saves = <<>>

NextStore ==
    \/ LoadSavedList
    \/ \E k \in 1..Len(savedCourses) : HandleLoad(savedCourses[k])
    \/ HandleSave
    \/ \E k \in 1..Len(savedCourses) : HandleDelete(savedCourses[k].id)
    \/ \E n \in 1..5 : Navigate(n)
    \/ GenerateFinal
    \/ \E i \in 1..Len(tasks) : \E resp \in StageResponses(DetailResponses) :
          DetailReturns(i, resp)
    \/ \E i \in 1..Len(tasks) : \E resp \in StageResponses(FinalResponses) :
          FinalReturns(i, resp)
    \/ \E p \in (IF coursePlan = <<>> THEN {} ELSE TextPaths(coursePlan[1])) :
          \E v \in EditTexts : EditField(p, v)

SpecStore == InitStore /\ [][NextStore]_vars

(***************************************************************************)
(* Properties of generateFinalPlanContent.                                 *)
(***************************************************************************)
PlanTasks == {tasks[i] : i \in {j \in 1..Len(tasks) : tasks[j].kind = "plan"}}

Returned(t, kind) == SelectSeq(t.trace, LAMBDA e : e.ev = "ret" /\ e.kind = kind)

ReturnedSet(t, kind) == {Returned(t, kind)[k] : k \in 1..Len(Returned(t, kind))}

\* the answer to the detail call made for position m of day d
DetailResp(t, d, m) ==
    (CHOOSE e \in ReturnedSet(t, "detail") : e.d = d /\ e.m = m).resp

\* the modules assembled so far for day d
Assembled(t, d) ==
    IF d <= Len(t.refinedDays) THEN t.refinedDays[d].modules
    ELSE IF d = Len(t.refinedDays) + 1 THEN t.refinedModules
    ELSE <<>>

\* C1: a run that obtained its client is never rejected, whichever detail
\* calls fail; it awaits a call until it resolves; and it resolves with the
\* skeleton's days and, per day, the skeleton's number of modules, where the
\* module at each position carries the sentinel methodology with the
\* skeleton's id, title and duration if its call failed and the fields of
\* the returned body otherwise.
C1_PerItemIsolation ==
    \A t \in PlanTasks :
        /\ t.phase = "rejected" => ~apiKey /\ t.trace = <<>>
        /\ t.phase = "pending" => t.call \in {"detail", "final"}
        /\ t.phase = "resolved" =>
              /\ Len(t.refinedDays) = Len(t.skel0)
              /\ \A d \in 1..Len(t.skel0) :
                    /\ t.refinedDays[d].dayNumber = t.skel0[d].dayNumber
                    /\ Len(t.refinedDays[d].modules) = Len(t.skel0[d].modules)
                    /\ \A m \in 1..Len(t.skel0[d].modules) :
                          LET out == t.refinedDays[d].modules[m]
                              sk == t.skel0[d].modules[m]
                              resp == DetailResp(t, d, m)
                          IN  IF resp.ok
                              THEN /\ DOMAIN out = DOMAIN resp.body \cup {"id", "title"}
                                   /\ \A f \in DOMAIN resp.body \ {"id", "title"} :
                                         out[f] = resp.body[f]
                              ELSE /\ out.methodology = ErrorSentinel
                                   /\ out.id = sk.id
                                   /\ out.title = sk.title
                                   /\ out.duration = sk.duration

C1_Witness ==
    \E t \in PlanTasks :
        /\ t.phase = "resolved"
        /\ \E e1, e2 \in ReturnedSet(t, "detail") : ~e1.resp.ok /\ e2.resp.ok

\* C2: every assembled module has the id and the title of the skeleton
\* module at its position, whatever id or title the detail response holds
\* and whether the call succeeded or failed.
C2_IdentityPreserved ==
    \A t \in PlanTasks :
        \A d \in 1..Len(t.skel0) :
            /\ Len(Assembled(t, d)) <= Len(t.skel0[d].modules)
            /\ \A m \in 1..Len(Assembled(t, d)) :
                  /\ Assembled(t, d)[m].id = t.skel0[d].modules[m].id
                  /\ Assembled(t, d)[m].title = t.skel0[d].modules[m].title

C2_Witness ==
    \E t \in PlanTasks :
        /\ t.phase = "resolved"
        /\ \E e \in ReturnedSet(t, "detail") :
              /\ e.resp.ok
              /\ Has(e.resp.body, "id")
              /\ e.resp.body.id # t.skel0[e.d].modules[e.m].id
              /\ e.resp.body.title # t.skel0[e.d].modules[e.m].title
        /\ \E e \in ReturnedSet(t, "detail") : ~e.resp.ok

\* the remote calls a skeleton asks for, in the order of its schedule
RECURSIVE CallOrder(_, _)
CallOrder(skel, d) ==
    IF d > Len(skel) THEN <<>>
    ELSE [m \in 1..Len(skel[d].modules) |-> <<"detail", d, m>>]
         \o << <<"final", d, 0>> >>
         \o CallOrder(skel, d + 1)

Remote(t) == SelectSeq(t.trace, LAMBDA e : e.ev # "progress")

Calls(t) ==
    [j \in 1..((Len(Remote(t)) + 1) \div 2) |->
        <<Remote(t)[2 * j - 1].kind, Remote(t)[2 * j - 1].d, Remote(t)[2 * j - 1].m>>]

\* C5: the calls and returns of a run alternate, so that no call is issued
\* while another is awaited; the calls made are a prefix of the schedule's
\* order (each day's modules in order, then that day's finalization, then
\* the next day), all of it once the run resolved, so that every module has
\* exactly one detail call, every day exactly one finalization call and a
\* failed call is not made again.
C5_SequentialCalls ==
    \A t \in PlanTasks :
        LET r == Remote(t)
            order == CallOrder(t.skel0, 1)
        IN  /\ \A k \in 1..Len(r) :
                  /\ r[k].ev = (IF k % 2 = 1 THEN "call" ELSE "ret")
                  /\ k % 2 = 0 => /\ r[k].kind = r[k - 1].kind
                                  /\ r[k].d = r[k - 1].d
                                  /\ r[k].m = r[k - 1].m
            /\ Len(Calls(t)) <= Len(order)
            /\ Calls(t) = SubSeq(order, 1, Len(Calls(t)))
            /\ t.phase = "pending" => Len(r) % 2 = 1
            /\ t.phase = "resolved" => Len(r) % 2 = 0 /\ Calls(t) = order

C5_Witness ==
    \E t \in PlanTasks :
        /\ t.phase = "resolved"
        /\ Len(t.skel0) = 2
        /\ \E e \in ReturnedSet(t, "detail") : ~e.resp.ok /\ e.d = 1
        /\ \E e \in ReturnedSet(t, "final") : ~e.resp.ok /\ e.d = 1

Malformed(resp) ==
    ~resp.ok \/ ~Has(resp.body, "summary") \/ ~Has(resp.body, "reviewQuestions")

\* C6: a day whose finalization call failed, or answered without a summary
\* or without review questions, is assembled with the skeleton's summary and
\* review questions.
C6_FinalizerFallback ==
    \A t \in PlanTasks :
        \A e \in ReturnedSet(t, "final") :
            Malformed(e.resp) /\ e.d <= Len(t.refinedDays) =>
                /\ Has(t.refinedDays[e.d], "summary")
                /\ Has(t.refinedDays[e.d], "reviewQuestions")
                /\ t.refinedDays[e.d].summary = t.skel0[e.d].summary
                /\ t.refinedDays[e.d].reviewQuestions = t.skel0[e.d].reviewQuestions

(***************************************************************************)
(* Properties of the wizard.                                               *)
(***************************************************************************)
StageKinds == {"outcomes", "structure", "icebreakers", "plan"}

StagesInFlight == {i \in 1..Len(tasks) : tasks[i].kind \in StageKinds /\ Pending(i)}

\* C3: in every reachable state at most one generation stage (outcomes,
\* structure, ice-breaker options, plan assembly) is in flight.
C3_OneStageInFlight == Cardinality(StagesInFlight) <= 1

\* C4: a plan assembly processes the modules of the skeleton it was started
\* with, under the titles they had then, and returns that skeleton's days:
\* the same modules at the same positions and every field of a day that
\* the assembly does not write as it was at the start.
C4_SnapshotIsolation ==
    \A t \in PlanTasks :
        LET order == CallOrder(t.skel0, 1)
            written == {"modules", "summary", "reviewQuestions"}
        IN  /\ Len(Calls(t)) <= Len(order)
            /\ Calls(t) = SubSeq(order, 1, Len(Calls(t)))
            /\ \A k \in 1..Len(t.trace) :
                  LET e == t.trace[k]
                  IN  e.ev = "call" /\ e.kind = "detail" =>
                          /\ e.d \in 1..Len(t.skel0)
                          /\ e.m \in 1..Len(t.skel0[e.d].modules)
                          /\ e.title = t.skel0[e.d].modules[e.m].title
            /\ t.phase = "resolved" =>
                  /\ Len(t.refinedDays) = Len(t.skel0)
                  /\ \A d \in 1..Len(t.skel0) :
                        /\ Without(t.refinedDays[d], written) = Without(t.skel0[d], written)
                        /\ Len(t.refinedDays[d].modules) = Len(t.skel0[d].modules)
                        /\ \A m \in 1..Len(t.skel0[d].modules) :
                              t.refinedDays[d].modules[m].id = t.skel0[d].modules[m].id

\* the run of task i fails in this step
FailedRun(i) ==
    /\ tasks'[i].kind \in StageKinds
    /\ tasks'[i].phase = "rejected"
    /\ (i > Len(tasks) \/ tasks[i].phase = "pending")

\* C7 as stated: a step in which the run of a generation stage fails leaves
\* outcomes, structure, the ice-breaker candidate sets and coursePlan as
\* they were.
C7_FailedRunKeepsAll ==
    [][(\E i \in 1..Len(tasks') : FailedRun(i)) =>
            UNCHANGED <<outcomes, structure, iceBreakerOptions, coursePlan>>]_vars

\* C7: a step in which the run of a generation stage fails leaves structure,
\* the ice-breaker candidate sets and coursePlan as they were; it leaves
\* outcomes as they were unless the stage is outcome generation, whose
\* failed run replaces them by the single empty placeholder outcome.
C7_FailedRunKeepsAllButOutcomes ==
    [][\A i \in 1..Len(tasks') :
          FailedRun(i) =>
              /\ UNCHANGED <<structure, iceBreakerOptions, coursePlan>>
              /\ IF tasks'[i].kind = "outcomes"
                 THEN outcomes' = FallbackOutcomes
                 ELSE UNCHANGED outcomes]_vars

C7_Witness ==
    /\ \E i \in 1..Len(tasks) : tasks[i].kind = "outcomes" /\ tasks[i].phase = "rejected"
    /\ outcomes = FallbackOutcomes
    /\ structure # <<>>
    /\ coursePlan # <<>>

\* the callback of refine task i is invoked in this step
Applied(i) == tasks[i].kind = "refine" /\ ~tasks[i].applied /\ tasks'[i].applied

\* C8: a step that applies a refinement result changes nothing of the
\* CoursePlan it finds but the targeted field.
C8_OnlyTargetChanges ==
    [][\A i \in 1..Len(tasks) :
          Applied(i) =>
              /\ coursePlan # <<>>
              /\ tasks[i].path \in TextPaths(coursePlan[1])
              /\ coursePlan' = <<WriteField(coursePlan[1], tasks[i].path,
                                            FieldText(coursePlan'[1], tasks[i].path))>>]_vars

\* the refinement of task i fails in this step
RefineFails(i) ==
    /\ tasks'[i].kind = "refine"
    /\ tasks'[i].phase = "rejected"
    /\ (i > Len(tasks) \/ tasks[i].phase = "pending")

\* C9: a step in which a refinement fails does not invoke the callback,
\* leaves coursePlan, error and status as they were and ends with isRefining
\* false.
C9_RefineFailureSilent ==
    [][\A i \in 1..Len(tasks') :
          RefineFails(i) =>
              /\ ~tasks'[i].applied
              /\ UNCHANGED <<coursePlan, error, status>>
              /\ isRefining' = FALSE]_vars

C9_Witness ==
    /\ coursePlan # <<>>
    /\ ~isRefining
    /\ \E i \in 1..Len(tasks) :
          tasks[i].kind = "refine" /\ tasks[i].phase = "rejected" /\ tasks[i].called

\* C10: handleRefine with an empty text returns at once: no remote call is
\* made for it and its callback is not invoked, then or later, and the step
\* leaves coursePlan and isRefining as they were.
C10_EmptyTextNoOp ==
    [][\A i \in 1..Len(tasks') :
          tasks'[i].kind = "refine" /\ tasks'[i].text = "" =>
              /\ tasks'[i].phase = "skipped"
              /\ ~tasks'[i].called
              /\ ~tasks'[i].applied
              /\ i > Len(tasks) => UNCHANGED <<coursePlan, isRefining>>]_vars

C10_Witness ==
    \E i \in 1..Len(tasks) :
        tasks[i].kind = "refine" /\ tasks[i].text = "" /\ tasks[i].phase = "skipped"

RefinesInFlight == {i \in 1..Len(tasks) : tasks[i].kind = "refine" /\ Pending(i)}

\* refine task i starts or settles in this step
RefineMoves(i) ==
    /\ tasks'[i].kind = "refine"
    /\ (i > Len(tasks) \/ tasks[i].phase # tasks'[i].phase)

\* C11: in every reachable state at most one refinement is in flight and
\* isRefining is true exactly when one is; and a step that starts or settles
\* a refinement leaves the pipeline status as it was.
C11_RefineBusyFlag ==
    /\ [](/\ Cardinality(RefinesInFlight) <= 1
          /\ isRefining <=> RefinesInFlight # {})
    /\ [][\A i \in 1..Len(tasks') : RefineMoves(i) => UNCHANGED status]_vars

\* a refinement and a generation stage in flight together
C11_Witness ==
    /\ isRefining
    /\ RefinesInFlight # {}
    /\ StagesInFlight # {}
    /\ status # IDLE

\* the run of plan task i resolves in this step
PlanResolves(i) ==
    /\ tasks'[i].kind = "plan"
    /\ tasks'[i].phase = "resolved"
    /\ (i > Len(tasks) \/ tasks[i].phase = "pending")

FinalResp(t, d) == (CHOOSE e \in ReturnedSet(t, "final") : e.d = d).resp

\* the values field f of day d can take from what run t read and received
FinalSources(t, d, f) ==
    (IF Has(t.skel[d], f) THEN {t.skel[d][f]} ELSE {})
    \cup (IF FinalResp(t, d).ok /\ Has(FinalResp(t, d).body, f)
          THEN {FinalResp(t, d).body[f]} ELSE {})

\* C12: the step in which a run of plan assembly resolves sets coursePlan to
\* the basics and outcomes the run was started with and the days the run
\* assembled, whatever coursePlan held before; every module of it carries
\* the body returned to this run's detail call for its position, or the
\* sentinel if that call failed, and every summary and review-question
\* sequence is one this run received or read from its skeleton.
C12_RerunOverwrites ==
    [][\A i \in 1..Len(tasks') :
          PlanResolves(i) =>
              LET t == tasks'[i]
              IN  /\ coursePlan' = <<[basics |-> t.cBasics, outcomes |-> t.cOutcomes,
                                      schedule |-> t.refinedDays]>>
                  /\ \A d \in 1..Len(t.refinedDays) :
                        /\ \A f \in {"summary", "reviewQuestions"} \cap DOMAIN t.refinedDays[d] :
                              t.refinedDays[d][f] \in FinalSources(t, d, f)
                        /\ \A m \in 1..Len(t.refinedDays[d].modules) :
                              LET out == t.refinedDays[d].modules[m]
                                  resp == DetailResp(t, d, m)
                              IN  IF resp.ok
                                  THEN \A f \in DOMAIN resp.body \ {"id", "title"} :
                                          Has(out, f) /\ out[f] = resp.body[f]
                                  ELSE out.methodology = ErrorSentinel]_vars

ResolvedPlans == {i \in 1..Len(tasks) : tasks[i].kind = "plan" /\ tasks[i].phase = "resolved"}

\* a second run has resolved with other content than the first
C12_Witness ==
    /\ coursePlan # <<>>
    /\ \E i, j \in ResolvedPlans :
          /\ i < j
          /\ tasks[i].refinedDays # tasks[j].refinedDays
          /\ tasks[j].refinedDays # <<>>
          /\ coursePlan[1].schedule = tasks[j].refinedDays

(***************************************************************************)
(* Properties of the stages.                                               *)
(***************************************************************************)
\* C13: in every reachable state 1 <= step <= maxStepReached <= 5.
C13_StepWithinReached == 1 <= step /\ step <= maxStepReached /\ maxStepReached <= 5

\* the run of task i, of the given kind, settles in this step
Settles(i, kind, phases) ==
    /\ tasks'[i].kind = kind
    /\ tasks'[i].phase \in phases
    /\ (i > Len(tasks) \/ tasks[i].phase = "pending")

\* the forward action of stage n completes in this step
ForwardCompletes(n) ==
    CASE n = 1 -> \E i \in 1..Len(tasks') : Settles(i, "outcomes", {"resolved", "rejected"})
      [] n = 2 -> \E i \in 1..Len(tasks') : Settles(i, "structure", {"resolved"})
      [] n = 3 -> step = 3 /\ step' = 4
      [] n = 4 -> \E i \in 1..Len(tasks') : Settles(i, "plan", {"resolved"})
      [] OTHER -> FALSE

\* a saved course is loaded in this step
Loads ==
    \E saved \in SavedCourses :
        /\ coursePlan' = <<saved>>
        /\ basics' = saved.basics
        /\ outcomes' = saved.outcomes
        /\ structure' = StructureOf(saved)
        /\ step' = 5

\* C14 as stated: a step that changes maxStepReached to N is one in which
\* the forward action of stage N-1 completes.
C14_UnlockedByPredecessor ==
    [][maxStepReached' # maxStepReached => ForwardCompletes(maxStepReached' - 1)]_vars

\* C14: a step that changes maxStepReached to N is one in which the forward
\* action of stage N-1 completes (a run of outcome generation, a successful
\* structure generation, 'Next: Select Ice Breakers', a successful
\* assembly), or one that loads a saved course, which sets it to 5.
C14_UnlockedByPredecessorOrLoad ==
    [][maxStepReached' # maxStepReached =>
          \/ ForwardCompletes(maxStepReached' - 1)
          \/ Loads /\ maxStepReached' = 5]_vars

\* the Structure stage unlocked by generation, no course having been loaded
C14_Witness ==
    /\ maxStepReached = 3
    /\ coursePlan = <<>>
    /\ \E i \in 1..Len(tasks) : tasks[i].kind = "outcomes" /\ tasks[i].phase = "resolved"
    /\ \E i \in 1..Len(tasks) : tasks[i].kind = "structure" /\ tasks[i].phase = "resolved"

\* C15: in every reachable state the user can navigate to every stage n <=
\* maxStepReached other than the active one, whether or not a generation is
\* in flight; and a navigation step leaves basics, outcomes, structure, the
\* candidate sets, coursePlan, status and maxStepReached as they were.
C15_NavigationOpen ==
    /\ [](\A n \in 1..5 : n <= maxStepReached /\ n # step => ENABLED Navigate(n))
    /\ [][\A n \in 1..5 :
             Navigate(n) => UNCHANGED <<basics, outcomes, structure, iceBreakerOptions,
                                        coursePlan, status, maxStepReached>>]_vars

\* the user went back to Basics while the assembly is in flight
C15_Witness ==
    /\ step = 1
    /\ maxStepReached >= 4
    /\ status = GENERATING_PLAN
    /\ \E i \in 1..Len(tasks) : tasks[i].kind = "plan" /\ Pending(i)

\* C16: a step in which a run of outcome generation settles leaves the
\* wizard at the Outcomes stage with a non-empty outcome sequence, which is
\* the single empty-text placeholder if the run failed.
C16_UsableOutcomes ==
    [][\A i \in 1..Len(tasks') :
          Settles(i, "outcomes", {"resolved", "rejected"}) =>
              /\ step' = 2
              /\ outcomes' # <<>>
              /\ tasks'[i].phase = "rejected" => outcomes' = FallbackOutcomes]_vars

Attempted(i) == i > Len(tasks) /\ tasks'[i].kind \in StageKinds

\* C18: without the credential, a step that attempts a generation (outcome
\* generation, structure generation, the ice-breaker loading of 'Next:
\* Select Ice Breakers' or 'Refresh Ideas', plan assembly) leaves the active
\* step and maxStepReached as they were and sets the error value.
C18_NoCredentialBlocks ==
    [][~apiKey =>
          \A i \in 1..Len(tasks') :
              Attempted(i) =>
                  /\ UNCHANGED <<step, maxStepReached>>
                  /\ error' # Null]_vars

\* C19: a step in which a run of structure generation succeeds stores as
\* many day skeletons as the duration descriptor it was started with names
\* (N for "N day", N in 1..5, and 1 otherwise), numbered 1..N in order.
C19_DayCountFromDuration ==
    [][\A i \in 1..Len(tasks') :
          Settles(i, "structure", {"resolved"}) =>
              /\ Len(structure') = tasks'[i].numDays
              /\ \A d \in 1..Len(structure') : structure'[d].dayNumber = d]_vars

\* C20: a step in which a run of structure generation succeeds stores day
\* skeletons each of which has the empty ice breaker, the placeholder
\* summary, no review questions, the recap placeholder if its day number is
\* greater than 1 and no recap otherwise, and modules whose subModules,
\* methodology and resources are empty.
C20_SkeletonShape ==
    [][\A i \in 1..Len(tasks') :
          Settles(i, "structure", {"resolved"}) =>
              \A d \in 1..Len(structure') :
                  LET day == structure'[d]
                  IN  /\ day.iceBreaker = [title |-> "", description |-> "", duration |-> ""]
                      /\ day.summary = "Key takeaways and Q&A"
                      /\ day.reviewQuestions = <<>>
                      /\ Has(day, "recap") <=> day.dayNumber > 1
                      /\ Has(day, "recap") => day.recap = "Recap of previous day"
                      /\ \A m \in 1..Len(day.modules) :
                            /\ day.modules[m].subModules = <<>>
                            /\ day.modules[m].methodology = ""
                            /\ day.modules[m].resources = ""]_vars

\* a generated two-day skeleton is stored
C20_Witness ==
    /\ \E i \in 1..Len(tasks) : tasks[i].kind = "structure" /\ tasks[i].phase = "resolved"
    /\ step = 3
    /\ Len(structure) = 2
    /\ ~Has(structure[1], "recap")
    /\ Has(structure[2], "recap")
    /\ structure[2].modules # <<>>

\* C21: a run of plan assembly started on an empty skeleton is rejected:
\* the error value is set, no CoursePlan is stored and the wizard stays at
\* the Ice Breakers stage.
C21_EmptySkeletonFails ==
    \A t \in PlanTasks :
        t.skel0 = <<>> =>
            /\ t.phase = "rejected"
            /\ error # Null
            /\ coursePlan = <<>>
            /\ step = 4

\* an ice-breaker load for task i starts or settles in this step
IceBreakerMoves(i) ==
    /\ tasks'[i].kind = "icebreakers"
    /\ (i > Len(tasks) \/ tasks[i].phase # tasks'[i].phase)

\* the candidate sets of the days other than dayIndex are as they were
OtherSetsKept(dayIndex) ==
    \A k \in (DOMAIN iceBreakerOptions \cup DOMAIN iceBreakerOptions') \ {dayIndex} :
        /\ k \in DOMAIN iceBreakerOptions
        /\ k \in DOMAIN iceBreakerOptions'
        /\ iceBreakerOptions'[k] = iceBreakerOptions[k]

\* in this step the ice breaker of day d becomes one of the day's candidates
PickedFrom(d) ==
    /\ (d - 1) \in DOMAIN iceBreakerOptions
    /\ \E k \in 1..Len(iceBreakerOptions[d - 1]) :
          structure'[d].iceBreaker = iceBreakerOptions[d - 1][k]

SelectionChanges(d) ==
    /\ d <= Len(structure) /\ d <= Len(structure')
    /\ structure'[d].iceBreaker # structure[d].iceBreaker

\* the skeleton is replaced in this step
StructureReplaced ==
    Loads \/ \E i \in 1..Len(tasks') : Settles(i, "structure", {"resolved"})

\* C22 as stated: a step that starts or settles an ice-breaker load leaves
\* structure and the other days' candidate sets as they were, and the ice
\* breaker of a day changes only in a step that picks one of its candidates.
C22_OnlyPickChangesSelection ==
    [][/\ \A i \in 1..Len(tasks') :
             IceBreakerMoves(i) =>
                 UNCHANGED structure /\ OtherSetsKept(tasks'[i].dayIndex)
       /\ \A d \in 1..MaxDays : SelectionChanges(d) => PickedFrom(d)]_vars

\* C22: a step that starts or settles an ice-breaker load, with success or
\* with failure, leaves structure and the other days' candidate sets as
\* they were, and the ice breaker of a day changes only in a step that
\* picks one of its candidates or that replaces the skeleton (a successful
\* structure generation, a loaded course).
C22_LoadKeepsSelection ==
    [][/\ \A i \in 1..Len(tasks') :
             IceBreakerMoves(i) =>
                 UNCHANGED structure /\ OtherSetsKept(tasks'[i].dayIndex)
       /\ \A d \in 1..MaxDays :
             SelectionChanges(d) => PickedFrom(d) \/ StructureReplaced]_vars

\* the candidates of day 1 were loaded again and its selection is not one
\* of them
C22_Witness ==
    /\ structure # <<>>
    /\ structure[1].iceBreaker.title # ""
    /\ 0 \in DOMAIN iceBreakerOptions
    /\ \A k \in 1..Len(iceBreakerOptions[0]) :
          iceBreakerOptions[0][k] # structure[1].iceBreaker
    /\ \E i \in 1..Len(tasks) :
          tasks[i].kind = "icebreakers" /\ tasks[i].dayIndex = 0 /\ tasks[i].phase = "resolved"

\* the data of the stages that this step changes
DataChanged ==
    (IF basics' # basics THEN {"basics"} ELSE {})
    \cup (IF outcomes' # outcomes THEN {"outcomes"} ELSE {})
    \cup (IF structure' # structure THEN {"structure"} ELSE {})
    \cup (IF iceBreakerOptions' # iceBreakerOptions THEN {"iceBreakerOptions"} ELSE {})
    \cup (IF coursePlan' # coursePlan THEN {"coursePlan"} ELSE {})

\* C23: every step other than the loading of a saved course changes at
\* most one of basics, outcomes, structure, the candidate sets and
\* coursePlan, whether or not an assembly is running: an edit of basics,
\* outcomes or structure and a run of an earlier stage leave coursePlan as
\* it was, and an edit or a refinement of the CoursePlan and a run of the
\* assembly leave basics, outcomes and structure as they were.
C23_NoInvalidation ==
    [][~Loads => Cardinality(DataChanged) <= 1]_vars

\* a module was added to the structure of an assembled plan
C23_Witness ==
    /\ coursePlan # <<>>
    /\ step = 3
    /\ \A i \in 1..Len(tasks) : ~(tasks[i].kind = "plan" /\ Pending(i))
    /\ \E d \in 1..Len(structure) :
          /\ d <= Len(coursePlan[1].schedule)
          /\ Len(structure[d].modules) > Len(coursePlan[1].schedule[d].modules)

\* the positions (day, module) of a schedule, day after day
RECURSIVE FlatPositions(_, _)
FlatPositions(schedule, d) ==
    IF d > Len(schedule) THEN <<>>
    ELSE [m \in 1..Len(schedule[d].modules) |-> <<d, m>>] \o FlatPositions(schedule, d + 1)

\* C24: in a render of the stored plan the number of the module at
\* position m of day d is the 1-based index of (d, m) in the flattened
\* schedule, so that the numbers continue across days and skip the days
\* without modules, and its sub-point at the 0-based index j is labelled
\* with that number and j + 1; the numbers are computed from the plan
\* rendered and are no field of it.
C24_ContinuousNumbering ==
    coursePlan # <<>> =>
        LET schedule == coursePlan[1].schedule
            flat == FlatPositions(schedule, 1)
            nums == ModuleNumbers(coursePlan[1])
        IN  /\ Len(nums) = Len(schedule)
            /\ \A d \in 1..Len(schedule) :
                  /\ Len(nums[d]) = Len(schedule[d].modules)
                  /\ \A m \in 1..Len(schedule[d].modules) :
                        /\ nums[d][m] \in 1..Len(flat)
                        /\ flat[nums[d][m]] = <<d, m>>
                        /\ Has(schedule[d].modules[m], "subModules") =>
                              \A j \in 0..(Len(schedule[d].modules[m].subModules) - 1) :
                                  SubPointLabel(nums[d][m], j)
                                      = <<SumTo([k \in 1..(d - 1) |-> Len(schedule[k].modules)],
                                                d - 1) + m, j + 1>>

\* a plan of two days with modules, the second with sub-points
C24_Witness ==
    /\ coursePlan # <<>>
    /\ Len(coursePlan[1].schedule) = 2
    /\ coursePlan[1].schedule[1].modules # <<>>
    /\ coursePlan[1].schedule[2].modules # <<>>
    /\ Has(coursePlan[1].schedule[2].modules[1], "subModules")
    /\ coursePlan[1].schedule[2].modules[1].subModules # <<>>

\* the progress messages and the remote calls of a run, in order
Announced(t) == SelectSeq(t.trace, LAMBDA e : e.ev # "ret")

\* C25: in a run given a sink, every remote call is preceded, with nothing
\* in between, by exactly one progress message, which is of the call's kind
\* and names the day number and, for a detail call, the title of the module
\* the call is made for; no other message is sent; the messages follow the
\* order of the schedule (each day's modules, then its finalization, then
\* the next day); and while the run is awaited the loading message shown
\* is the last one sent.
C25_ProgressBeforeEachCall ==
    \A t \in PlanTasks :
        t.sink =>
            LET a == Announced(t)
                order == CallOrder(t.skel0, 1)
            IN  /\ Len(a) % 2 = 0
                /\ \A k \in 1..Len(a) :
                      /\ a[k].ev = (IF k % 2 = 1 THEN "progress" ELSE "call")
                      /\ k % 2 = 1 =>
                            /\ <<a[k].kind, a[k].d, a[k].m>> = order[(k + 1) \div 2]
                            /\ <<a[k].kind, a[k].d, a[k].m, a[k].day, a[k].title>>
                                  = <<a[k + 1].kind, a[k + 1].d, a[k + 1].m, a[k + 1].day,
                                      a[k + 1].title>>
                            /\ a[k].day = t.skel0[a[k].d].dayNumber
                            /\ ProgressMsg(a[k]) =
                                  (IF a[k].kind = "detail"
                                   THEN <<"Writing content for Day", t.skel0[a[k].d].dayNumber,
                                          t.skel0[a[k].d].modules[a[k].m].title>>
                                   ELSE <<"Finalizing Day summary", t.skel0[a[k].d].dayNumber>>)
                /\ \A k \in 1..Len(t.trace) :
                      t.trace[k].ev = "call" => k > 1 /\ t.trace[k - 1].ev = "progress"
                /\ t.phase = "resolved" => Len(a) = 2 * Len(order)
                /\ t.phase = "pending" => loadingMsg = ProgressMsg(a[Len(a) - 1])

\* a run over two days, with modules, has sent all its messages
C25_Witness ==
    \E t \in PlanTasks :
        /\ t.sink
        /\ t.phase = "resolved"
        /\ Len(t.skel0) = 2
        /\ Len(CallOrder(t.skel0, 1)) >= 4
        /\ Len(Announced(t)) = 2 * Len(CallOrder(t.skel0, 1))

\* what a run leaves to its caller and asks of the remote
OutcomeOf(t) ==
    [phase |-> t.phase, refinedDays |-> t.refinedDays, refinedModules |-> t.refinedModules,
     remote |-> Remote(t)]

\* C26: of two runs of generateFinalPlanContent on the same arguments whose
\* remote calls are answered alike, the one with a sink and the one
\* without make the same remote calls in the same order and, at every
\* await and at the end, have assembled the same days and modules; the run
\* without a sink sends no message.
C26_SinkIsObservationOnly ==
    Len(tasks) = 2 =>
        /\ tasks[1].sink /\ ~tasks[2].sink
        /\ OutcomeOf(tasks[1]) = OutcomeOf(tasks[2])
        /\ Remote(tasks[2]) = tasks[2].trace

\* both runs resolved over two days, the first having sent messages
C26_Witness ==
    /\ Len(tasks) = 2
    /\ tasks[1].phase = "resolved" /\ tasks[2].phase = "resolved"
    /\ Len(tasks[2].refinedDays) = 2
    /\ tasks[2].refinedDays[1].modules # <<>>
    /\ Len(tasks[1].trace) > Len(tasks[2].trace)
    /\ \E e \in ReturnedSet(tasks[2], "detail") : ~e.resp.ok

\* C27: every plan a run of the assembly resolves with is well formed,
\* whatever the remote answered: each module has subModules, methodology,
\* resources and duration, and each day has its review questions.
C27_WellFormedPlan ==
    \A t \in PlanTasks :
        t.phase = "resolved" =>
            \A d \in 1..Len(t.refinedDays) :
                /\ Has(t.refinedDays[d], "reviewQuestions")
                /\ \A m \in 1..Len(t.refinedDays[d].modules) :
                      \A f \in {"subModules", "methodology", "resources", "duration"} :
                          Has(t.refinedDays[d].modules[m], f)

\* C28: in every reachable state the ids of the modules of the structure
\* are pairwise distinct.
C28_DistinctModuleIds ==
    \A d, e \in 1..Len(structure) :
        \A m \in 1..Len(structure[d].modules) :
            \A n \in 1..Len(structure[e].modules) :
                <<d, m>> # <<e, n>> => structure[d].modules[m].id # structure[e].modules[n].id

\* C29: in every reachable state the ids of the outcomes are pairwise
\* distinct, so that an edit or a removal by id meets one outcome.
C29_DistinctOutcomeIds ==
    \A i, j \in 1..Len(outcomes) : i # j => outcomes[i].id # outcomes[j].id

\* C30: a step that starts a run of structure generation finds at least
\* three outcomes; and generateStructure with fewer than three sets the
\* error value and starts no run, leaving status, structure, the active
\* step and maxStepReached as they were.
C30_NeedsThreeOutcomes ==
    [][/\ \A i \in 1..Len(tasks') :
             Attempted(i) /\ tasks'[i].kind = "structure" => Len(outcomes) >= 3
       /\ GenerateStructure /\ Len(outcomes) < 3 =>
             /\ error' = "Need at least 3 outcomes"
             /\ UNCHANGED <<status, structure, step, maxStepReached, tasks>>]_vars

\* generateStructure was refused on the placeholder outcome
C30_Witness ==
    /\ step = 2
    /\ Len(outcomes) < 3
    /\ error = "Need at least 3 outcomes"
    /\ \A i \in 1..Len(tasks) : tasks[i].kind # "structure"

\* C31: a step that starts a run of outcome generation finds a non-empty
\* course title; and generateSuggestedOutcomes with an empty title sets the
\* error value and starts no run, leaving status, outcomes, the active step
\* and maxStepReached as they were.
C31_NeedsTitle ==
    [][/\ \A i \in 1..Len(tasks') :
             Attempted(i) /\ tasks'[i].kind = "outcomes" => basics.courseTitle # ""
       /\ GenerateSuggestedOutcomes /\ basics.courseTitle = "" =>
             /\ error' = "Enter title"
             /\ UNCHANGED <<status, outcomes, step, maxStepReached, tasks>>]_vars

\* generateSuggestedOutcomes was refused on the empty title
C31_Witness ==
    /\ step = 1
    /\ basics.courseTitle = ""
    /\ error = "Enter title"
    /\ outcomes = <<>>
    /\ \A i \in 1..Len(tasks) : tasks[i].kind # "outcomes"

\* C33: no step lowers maxStepReached.
C33_HighestStageMonotone ==
    [][maxStepReached' >= maxStepReached]_vars

\* C35: in every reachable state in which maxStepReached is 5 or the
\* active step is 5, coursePlan is not null.
C35_PlanStageHasPlan ==
    maxStepReached = 5 \/ step = 5 => coursePlan # <<>>

\* the Plan stage reached by an assembly, no course having been loaded
C35_Witness ==
    /\ step = 5
    /\ maxStepReached = 5
    /\ coursePlan # <<>>
    /\ ~Has(coursePlan[1], "id")
    /\ \E i \in ResolvedPlans : coursePlan[1].schedule = tasks[i].refinedDays

\* C36: a run of plan assembly keeps the basics and outcomes of the step
\* that started it, and the step in which it resolves stores them with the
\* assembled schedule, whatever basics and outcomes are by then.
C36_PlanOfStartValues ==
    [][\A i \in 1..Len(tasks') :
          /\ Attempted(i) /\ tasks'[i].kind = "plan" =>
                tasks'[i].cBasics = basics /\ tasks'[i].cOutcomes = outcomes
          /\ i <= Len(tasks) /\ tasks[i].kind = "plan" =>
                tasks'[i].cBasics = tasks[i].cBasics /\ tasks'[i].cOutcomes = tasks[i].cOutcomes
          /\ PlanResolves(i) =>
                /\ coursePlan'[1].basics = tasks'[i].cBasics
                /\ coursePlan'[1].outcomes = tasks'[i].cOutcomes
                /\ coursePlan'[1].schedule = tasks'[i].refinedDays]_vars

\* a plan stored with the title of its start, the title edited since
C36_Witness ==
    /\ step = 5
    /\ coursePlan # <<>>
    /\ coursePlan[1].basics # basics
    /\ \E i \in ResolvedPlans :
          /\ coursePlan[1].basics = tasks[i].cBasics
          /\ coursePlan[1].schedule = tasks[i].refinedDays

\* the ids and titles of the modules of a schedule
IdsAndTitles(schedule) ==
    [d \in 1..Len(schedule) |->
        [m \in 1..Len(schedule[d].modules) |->
            <<schedule[d].modules[m].id, schedule[d].modules[m].title>>]]

\* C38: a step that loads a saved course ends at step 5 with maxStepReached
\* 5, coursePlan the saved record and a structure of the saved days, each
\* with the same fields but for its modules, which have the saved ids,
\* titles and durations in the saved order and empty subModules,
\* methodology and resources; and an assembly run on that skeleton, the
\* skeleton not edited while it runs, resolves with the saved modules' ids
\* and titles.
C38_LoadRestoresSkeleton ==
    /\ [][\A saved \in SavedCourses :
             HandleLoad(saved) =>
                 /\ step' = 5 /\ maxStepReached' = 5
                 /\ coursePlan' = <<saved>>
                 /\ Len(structure') = Len(saved.schedule)
                 /\ \A d \in 1..Len(saved.schedule) :
                       /\ Without(structure'[d], {"modules"})
                             = Without(saved.schedule[d], {"modules"})
                       /\ Len(structure'[d].modules) = Len(saved.schedule[d].modules)
                       /\ \A m \in 1..Len(saved.schedule[d].modules) :
                             structure'[d].modules[m]
                                = [id |-> saved.schedule[d].modules[m].id,
                                   title |-> saved.schedule[d].modules[m].title,
                                   duration |-> saved.schedule[d].modules[m].duration,
                                   subModules |-> <<>>, methodology |-> "",
                                   resources |-> ""]]_vars
    /\ [](\A i \in ResolvedPlans : \A saved \in SavedCourses :
             tasks[i].skel0 = StructureOf(saved) /\ tasks[i].skel = tasks[i].skel0 =>
                 IdsAndTitles(tasks[i].refinedDays) = IdsAndTitles(saved.schedule))

\* a loaded course assembled again, with other content than it was saved with
C38_Witness ==
    /\ coursePlan # <<>>
    /\ ~Has(coursePlan[1], "id")
    /\ \E saved \in SavedCourses : \E i \in ResolvedPlans :
          /\ tasks[i].skel0 = StructureOf(saved)
          /\ coursePlan[1].schedule = tasks[i].refinedDays
          /\ coursePlan[1].schedule # saved.schedule
          /\ IdsAndTitles(coursePlan[1].schedule) = IdsAndTitles(saved.schedule)

\* C34: every run of a generation stage that is in flight is settled in
\* the end, with status idle; the step that settles it, resolved or
\* rejected, ends with status idle; and the status is other than idle only
\* while a run is in flight.
C34_StagesReturnToIdle ==
    /\ \A i \in 1..MaxLiveOps :
          (i \in StagesInFlight) ~> (i \notin StagesInFlight /\ status = IDLE)
    /\ [][\A i \in 1..Len(tasks') :
             \A kind \in StageKinds :
                 Settles(i, kind, {"resolved", "rejected"}) => status' = IDLE]_vars
    /\ [](status # IDLE => StagesInFlight # {})

\* an ice-breaker load failed and an assembly resolved, the status idle
C34_Witness ==
    /\ status = IDLE
    /\ apiKey
    /\ \E i \in 1..Len(tasks) : tasks[i].kind = "icebreakers" /\ tasks[i].phase = "rejected"
    /\ \E i \in 1..Len(tasks) : tasks[i].kind = "plan" /\ tasks[i].phase = "resolved"

(***************************************************************************)
(* Properties of the store.                                                *)
(***************************************************************************)
\* a saveCourseToDB call settles in this step
Saves == Len(saves') = Len(saves) + 1

LastSave == saves'[Len(saves')]

\* C32: every record of the store has an identifier, under which it is
\* stored, and a last-modified timestamp; and when a saveCourseToDB call
\* resolves, the record it wrote is the plan with the plan's own identifier
\* when it has one, and otherwise one no record and no earlier call has, and
\* with the time of the call, the identifier it returns is that of the
\* record stored under it, and no other record changes.
C32_SavedRecordsKeyed ==
    /\ [](\A k \in DOMAIN db :
             Has(db[k], "id") /\ db[k].id = k /\ Has(db[k], "lastModified"))
    /\ [][Saves /\ LastSave.phase = "resolved" =>
             /\ LastSave.id \in DOMAIN db'
             /\ db'[LastSave.id].id = LastSave.id
             /\ db'[LastSave.id].lastModified = now'
             /\ Without(db'[LastSave.id], {"id", "lastModified"})
                   = Without(LastSave.plan, {"id", "lastModified"})
             /\ IF Truthy(LastSave.plan, "id")
                THEN LastSave.id = LastSave.plan.id
                ELSE /\ LastSave.id \notin DOMAIN db
                     /\ \A k \in 1..Len(saves) :
                           saves[k].phase = "resolved" => saves[k].id # LastSave.id
             /\ \A k \in DOMAIN db : k # LastSave.id => k \in DOMAIN db' /\ db'[k] = db[k]
             /\ DOMAIN db' = DOMAIN db \cup {LastSave.id}]_vars

\* a plan with an identifier and a plan without one have both been saved
C32_Witness ==
    /\ \E k \in 1..Len(saves) :
          saves[k].phase = "resolved" /\ Truthy(saves[k].plan, "id")
    /\ \E k \in 1..Len(saves) :
          /\ saves[k].phase = "resolved" /\ ~Truthy(saves[k].plan, "id")
          /\ saves[k].id \in DOMAIN db

\* a course of the drawer's list is loaded in this step
LoadsStored == \E k \in 1..Len(savedCourses) : coursePlan' = <<savedCourses[k]>>

\* the identifiers the store has held: the first record's and those the
\* saves so far resolved with
StoredBefore ==
    (DOMAIN StoredCourses)
        \cup {saves[k].id : k \in {j \in 1..Len(saves) : saves[j].phase = "resolved"}}

\* C37: where every plan comes from a loaded course, a plan with a store
\* identifier keeps it in every step that is not a load, direct edits and
\* the end of a re-assembly included; and a save that resolves returns an
\* identifier the store has held before, so that it writes no record under
\* a new identifier.
C37_KeepsStoreIdentifier ==
    /\ [][coursePlan # <<>> /\ Truthy(coursePlan[1], "id") /\ ~LoadsStored =>
             /\ coursePlan' # <<>>
             /\ Truthy(coursePlan'[1], "id")
             /\ coursePlan'[1].id = coursePlan[1].id]_vars
    /\ [][Saves /\ LastSave.phase = "resolved" => LastSave.id \in StoredBefore]_vars

====
